---- MODULE Spec2Model ----
(***************************************************************************)
(* Model of the resilient request layer of linear-cli: the identifier      *)
(* resolver (src/src/api.rs), the list commands that share its cache       *)
(* (src/src/commands/{teams,users,statuses}.rs), the retry loop            *)
(* (src/src/retry.rs) and the transport's error construction (api.rs).     *)
(*                                                                         *)
(* Text is modelled as a sequence of one-character strings, so that        *)
(* length, separator counting, case folding and substring tests are        *)
(* computed the way the code computes them.                                *)
(***************************************************************************)
EXTENDS Integers, Sequences, FiniteSets, TLC

(***************************************************************************)
(* Bounds of the model.                                                    *)
(***************************************************************************)
\* page size requested by the resolver's full fetch (250 in the code, scaled)
ResolvePageSize == 2
\* page size the list commands use when no override is given (100, scaled)
ListPageSize == 2

\* "no value" for optional numbers (limit, page size, cursors)
None == -1

(***************************************************************************)
(* Text helpers.                                                           *)
(***************************************************************************)
UpperChars == <<"A","B","C","D","E","F","G","H","I","J","K","L","M",
                "N","O","P","Q","R","S","T","U","V","W","X","Y","Z">>
LowerChars == <<"a","b","c","d","e","f","g","h","i","j","k","l","m",
                "n","o","p","q","r","s","t","u","v","w","x","y","z">>

\* char::to_ascii_lowercase
LowerChar(c) ==
    IF \E i \in 1..26 : UpperChars[i] = c
    THEN LowerChars[CHOOSE i \in 1..26 : UpperChars[i] = c]
    ELSE c

\* str::to_lowercase on ASCII text
ToLower(s) == [i \in 1..Len(s) |-> LowerChar(s[i])]

\* str::eq_ignore_ascii_case
EqIgnoreCase(a, b) == Len(a) = Len(b) /\ ToLower(a) = ToLower(b)

\* str::contains
Contains(s, sub) ==
    \E i \in 1..(Len(s) - Len(sub) + 1) : SubSeq(s, i, i + Len(sub) - 1) = sub

\* number of occurrences of the character c in s
CountChar(s, c) == Cardinality({i \in 1..Len(s) : s[i] = c})

UuidLen == 36
UuidDashes == 4

\* text::is_uuid
is_uuid(value) == Len(value) = UuidLen /\ CountChar(value, "-") = UuidDashes

\* a well-formed identifier of the service, all of whose hex digits are c
Uuid(c) == [i \in 1..36 |-> IF i \in {9, 14, 19, 24} THEN "-" ELSE c]

\* the empty text, also used for "no id"
NoId == <<>>

(***************************************************************************)
(* The remote service's reference data (fixed during a run).               *)
(***************************************************************************)
sENG == <<"E","N","G">>
seng == <<"e","n","g">>
sOPS == <<"O","P","S">>
sOps == <<"O","p","s">>
sCore == <<"C","o","r","e">>
sAnn == <<"A","n","n">>
sann == <<"a","n","n">>
sBob == <<"B","o","b">>
sMail == <<"b","@","x">>
sbug == <<"b","u","g">>
sBUG == <<"B","U","G">>
szz == <<"z","z">>
sme == <<"m","e">>
sMe == <<"M","e">>

ServerTeams ==
    << [id |-> Uuid("1"), key |-> sENG, name |-> sOps],
       [id |-> Uuid("2"), key |-> sOPS, name |-> seng] >>
ServerUsers ==
    << [id |-> Uuid("4"), name |-> sBob, email |-> sann],
       [id |-> Uuid("3"), name |-> sAnn, email |-> sMail] >>
ServerLabels ==
    << [id |-> Uuid("5"), name |-> sCore],
       [id |-> Uuid("6"), name |-> sOps],
       [id |-> Uuid("b"), name |-> sbug] >>
\* workflow states of each team, by team id
ServerStates(teamId) ==
    IF teamId = Uuid("1")
    THEN << [id |-> Uuid("7"), name |-> sOps], [id |-> Uuid("8"), name |-> sbug] >>
    ELSE IF teamId = Uuid("2")
    THEN << [id |-> Uuid("a"), name |-> sOps] >>
    ELSE << >>
ServerTeamIds == {ServerTeams[i].id : i \in 1..Len(ServerTeams)}
ViewerId == Uuid("3")

BucketTeams == "teams"
BucketUsers == "users"
BucketLabels == "labels"
\* the statuses bucket is keyed by team id
BucketStatuses(teamId) == IF teamId = Uuid("1") THEN "statuses:1" ELSE "statuses:2"
Buckets == {BucketTeams, BucketUsers, BucketLabels, "statuses:1", "statuses:2"}

\* the complete, unfiltered collection of a bucket's entity kind
FullCollection(b) ==
    CASE b = BucketTeams -> ServerTeams
      [] b = BucketUsers -> ServerUsers
      [] b = BucketLabels -> ServerLabels
      [] b = "statuses:1" -> ServerStates(Uuid("1"))
      [] OTHER -> ServerStates(Uuid("2"))


(***************************************************************************)
(* Reference-data cache: get / set / get_keyed / set_keyed.  An entry is   *)
(* replaced as a whole; a read of an expired entry is a miss.              *)
(***************************************************************************)
NoEntry == [present |-> FALSE, data |-> << >>]

\* Cache::set and Cache::set_keyed: whole-entry replacement of one bucket
CacheSet(c, b, payload) == [c EXCEPT ![b] = [present |-> TRUE, data |-> payload]]

\* Cache::get and Cache::get_keyed: the entry, or a miss when absent or expired
CacheGet(c, b, expired) == IF c[b].present /\ ~expired THEN c[b] ELSE NoEntry

\* the entity collection held in a bucket's payload
PayloadItems(b, payload) ==
    IF b \in {BucketTeams, BucketUsers, BucketLabels} THEN payload ELSE payload.states

(***************************************************************************)
(* Matchers.                                                               *)
(***************************************************************************)
\* the least index of a set of indices, 0 when it is empty (Iterator::find)
FirstIndex(S) == IF S = {} THEN 0 ELSE CHOOSE i \in S : \A j \in S : i <= j

\* variant of the team matcher that takes the first team matching on either
\* field
find_team_id_EitherField(teams, team) ==
    LET i == FirstIndex({j \in 1..Len(teams) :
                 \/ EqIgnoreCase(teams[j].key, team)
                 \/ EqIgnoreCase(teams[j].name, team)})
    IN  IF i # 0 THEN teams[i].id ELSE NoId

\* find_team_id
find_team_id(teams, team) ==
    LET k == FirstIndex({i \in 1..Len(teams) : EqIgnoreCase(teams[i].key, team)})
        n == FirstIndex({i \in 1..Len(teams) : EqIgnoreCase(teams[i].name, team)})
    IN  IF k # 0 THEN teams[k].id
        ELSE IF n # 0 THEN teams[n].id
        ELSE NoId

find_user_id(users, user) ==
    LET i == FirstIndex({j \in 1..Len(users) :
                 \/ EqIgnoreCase(users[j].name, user)
                 \/ EqIgnoreCase(users[j].email, user)})
    IN  IF i # 0 THEN users[i].id ELSE NoId

find_label_id(labels, label) ==
    LET i == FirstIndex({j \in 1..Len(labels) : EqIgnoreCase(labels[j].name, label)})
    IN  IF i # 0 THEN labels[i].id ELSE NoId

\* the finder closure each resolver entry point passes to resolve_id
Finder(kind, items, input) ==
    CASE kind = "team" -> find_team_id(items, input)
      [] kind = "user" -> find_user_id(items, input)
      [] OTHER -> find_label_id(items, input)

\* ResolverConfig.cache_type of each entry point
CacheTypeOf(kind) ==
    CASE kind = "team" -> BucketTeams
      [] kind = "user" -> BucketUsers
      [] OTHER -> BucketLabels

(***************************************************************************)
(* The service's paged endpoints and the cursor paginator.  A cursor is    *)
(* the index of the last item served (0 before the first item).            *)
(***************************************************************************)
Min(a, b) == IF a < b THEN a ELSE b

\* one forward page: `first` items after cursor `after`
ServerPage(coll, first, after) ==
    [nodes       |-> SubSeq(coll, after + 1, Min(after + first, Len(coll))),
     hasNextPage |-> after + first < Len(coll),
     endCursor   |-> Min(after + first, Len(coll))]

\* PaginationOptions::with_default_limit
with_default_limit(opts, dflt) ==
    IF opts.limit = None /\ ~opts.all THEN [opts EXCEPT !.limit = dflt] ELSE opts

Take(s, n) == SubSeq(s, 1, Min(n, Len(s)))

RECURSIVE PageWalk(_, _, _, _, _)
\* the page loop: fetch, append, stop at the limit or when no page follows
PageWalk(coll, pageSize, limit, cursor, acc) ==
    LET page == ServerPage(coll, pageSize, cursor)
        acc2 == acc \o page.nodes
    IN  IF limit # None /\ Len(acc2) >= limit THEN Take(acc2, limit)
        ELSE IF ~page.hasNextPage THEN acc2
        ELSE PageWalk(coll, pageSize, limit, page.endCursor, acc2)

\* pagination::paginate_nodes on a service that answers every page request
paginate_nodes(coll, opts, defaultPageSize) ==
    LET pageSize == IF opts.page_size # None THEN opts.page_size ELSE defaultPageSize
        limit == IF opts.all THEN None ELSE opts.limit
        start == IF opts.after # None THEN opts.after ELSE 0
    IN  PageWalk(coll, pageSize, limit, start, << >>)

\* the pagination flags a command line can carry
PaginationChoices ==
    [limit : {None, 1}, all : BOOLEAN, page_size : {None, 1},
     after : {None, 1}, before : {None}]

\* PaginationOptions { all: true, page_size: Some(250), ..Default::default() }
ResolvePagination ==
    [limit |-> None, all |-> TRUE, page_size |-> ResolvePageSize,
     after |-> None, before |-> None]


(***************************************************************************)
(* Errors (CliError and anyhow::Error) and the transport's error           *)
(* construction.                                                           *)
(***************************************************************************)
tAuthFailed ==
    <<"A","u","t","h","e","n","t","i","c","a","t","i","o","n"," ","f","a","i",
        "l","e","d"," ","-"," ","c","h","e","c","k"," ","y","o","u","r"," ",
        "A","P","I"," ","k","e","y">>
tAccessDenied == <<"A","c","c","e","s","s"," ","d","e","n","i","e","d"," ","-"," ">>
tNotFoundSuffix == <<" ","n","o","t"," ","f","o","u","n","d">>
tRateLimitExceeded ==
    <<"R","a","t","e"," ","l","i","m","i","t"," ","e","x","c","e","e","d","e",
        "d">>
tHTTP == <<"H","T","T","P"," ">>
tGraphQLError == <<"G","r","a","p","h","Q","L"," ","e","r","r","o","r">>
tResource == <<"r","e","s","o","u","r","c","e">>
tUpload == <<"u","p","l","o","a","d">>
tUnknownError == <<"U","n","k","n","o","w","n"," ","e","r","r","o","r">>
tUnauthorized == <<"U","n","a","u","t","h","o","r","i","z","e","d">>
tForbidden == <<"F","o","r","b","i","d","d","e","n">>
tNotFound == <<"N","o","t"," ","F","o","u","n","d">>
tRequestTimeout == <<"R","e","q","u","e","s","t"," ","T","i","m","e","o","u","t">>
tTooManyRequests == <<"T","o","o"," ","M","a","n","y"," ","R","e","q","u","e","s","t","s">>
tInternalServerError ==
    <<"I","n","t","e","r","n","a","l"," ","S","e","r","v","e","r"," ","E","r",
        "r","o","r">>
tBadGateway == <<"B","a","d"," ","G","a","t","e","w","a","y">>
tServiceUnavailable ==
    <<"S","e","r","v","i","c","e"," ","U","n","a","v","a","i","l","a","b","l",
        "e">>
tGatewayTimeout == <<"G","a","t","e","w","a","y"," ","T","i","m","e","o","u","t">>
tBadRequest == <<"B","a","d"," ","R","e","q","u","e","s","t">>
kwRateLimit == <<"r","a","t","e"," ","l","i","m","i","t">>
kwTimeout == <<"t","i","m","e","o","u","t">>
kwTemporarilyUnavailable ==
    <<"t","e","m","p","o","r","a","r","i","l","y"," ","u","n","a","v","a","i",
        "l","a","b","l","e">>
kwConnection == <<"c","o","n","n","e","c","t","i","o","n">>
kw429 == <<"4","2","9">>
kw502 == <<"5","0","2">>
kw503 == <<"5","0","3">>
kw504 == <<"5","0","4">>
tSendFailed ==
    <<"e","r","r","o","r"," ","s","e","n","d","i","n","g"," ","r","e","q","u",
        "e","s","t",":"," ","c","o","n","n","e","c","t","i","o","n"," ","r",
        "e","f","u","s","e","d">>
tDecodeFailed ==
    <<"e","r","r","o","r"," ","d","e","c","o","d","i","n","g"," ","r","e","s",
        "p","o","n","s","e"," ","b","o","d","y">>
tEntityNotFound == <<"E","n","t","i","t","y"," ","n","o","t"," ","f","o","u","n","d">>
tQueryTimeout ==
    <<"Q","u","e","r","y"," ","t","i","m","e","o","u","t",","," ","r","a","t",
        "e"," ","l","i","m","i","t"," ","5","0","3">>
tConnectUploads ==
    <<"F","a","i","l","e","d"," ","t","o"," ","c","o","n","n","e","c","t"," ",
        "t","o"," ","L","i","n","e","a","r"," ","u","p","l","o","a","d","s">>
tSep == <<":"," ">>
tJoin == <<";"," ">>

\* decimal digits of a non-negative number, as `{}` formats an integer
RECURSIVE Decimal(_)
Decimal(n) ==
    LET digit == <<"0","1","2","3","4","5","6","7","8","9">>[(n % 10) + 1]
    IN  IF n < 10 THEN <<digit>> ELSE Decimal(n \div 10) \o <<digit>>

\* StatusCode::canonical_reason, None for a status without a registered phrase
canonical_reason(status) ==
    CASE status = 400 -> tBadRequest
      [] status = 401 -> tUnauthorized
      [] status = 403 -> tForbidden
      [] status = 404 -> tNotFound
      [] status = 408 -> tRequestTimeout
      [] status = 429 -> tTooManyRequests
      [] status = 500 -> tInternalServerError
      [] status = 502 -> tBadGateway
      [] status = 503 -> tServiceUnavailable
      [] status = 504 -> tGatewayTimeout
      [] OTHER -> NoId

\* StatusCode::is_success
is_success(status) == status >= 200 /\ status < 300

\* serde_json details of an error; unused parts keep their defaults
NoDetails ==
    [kind |-> "none", status |-> 0, reason |-> NoId, request_id |-> "none",
     body |-> "none", isArray |-> FALSE, messages |-> << >>]

\* CliError::new
CliError(code, message) ==
    [cli |-> TRUE, code |-> code, message |-> message,
     details |-> NoDetails, retry_after |-> None]

\* CliError::with_details: the details are replaced, not merged
with_details(e, details) == [e EXCEPT !.details = details]

\* CliError::with_retry_after
with_retry_after(e, retry_after) == [e EXCEPT !.retry_after = retry_after]

\* an anyhow::Error that wraps no CliError (reqwest failures)
OtherError(message) ==
    [cli |-> FALSE, code |-> 0, message |-> message,
     details |-> NoDetails, retry_after |-> None]

\* the value of an absent error
NoError == OtherError(NoId)

\* texts joined with a separator (Vec::join)
RECURSIVE JoinTexts(_, _)
JoinTexts(texts, sep) ==
    IF texts = << >> THEN << >>
    ELSE IF Len(texts) = 1 THEN texts[1]
    ELSE texts[1] \o sep \o JoinTexts(Tail(texts), sep)

\* impl Display for CliError: the message, then the messages of a GraphQL
\* errors array in the details
Display(e) ==
    IF e.cli /\ e.details.kind = "graphql" /\ e.details.isArray
             /\ e.details.messages # << >>
    THEN e.message \o tSep \o JoinTexts(e.details.messages, tJoin)
    ELSE e.message

\* http_error
http_error(status, headers, context) ==
    LET reason == IF canonical_reason(status) # NoId
                  THEN canonical_reason(status) ELSE tUnknownError
        details == [NoDetails EXCEPT !.kind = "http", !.status = status,
                                     !.reason = reason,
                                     !.request_id = headers.request_id]
        e == CASE status = 401 -> CliError(3, tAuthFailed)
               [] status = 403 -> CliError(3, tAccessDenied \o context)
               [] status = 404 -> CliError(2, context \o tNotFoundSuffix)
               [] status = 429 -> with_retry_after(CliError(4, tRateLimitExceeded),
                                                   headers.retry_after)
               [] OTHER -> CliError(1, tHTTP \o Decimal(status) \o <<" ">> \o reason)
    IN  with_details(e, details)

\* variant of the classifier that tests the displayed text of the error
CliIsRetryable_OnDisplay(e) ==
    LET msg == ToLower(Display(e))
    IN  \/ e.code = 4
        \/ Contains(msg, kwRateLimit)
        \/ Contains(msg, kwTimeout)
        \/ Contains(msg, kwTemporarilyUnavailable)
        \/ Contains(msg, kw503)
        \/ Contains(msg, kw502)
        \/ Contains(msg, kw504)

\* variant of the classifier without the gateway statuses
CliIsRetryable_RateLimitOnly(e) ==
    LET msg == ToLower(e.message)
    IN  \/ e.code = 4
        \/ Contains(msg, kwRateLimit)
        \/ Contains(msg, kwTimeout)

\* impl IsRetryable for CliError: is_retryable
CliIsRetryable(e) ==
    LET msg == ToLower(e.message)
    IN  \/ e.code = 4
        \/ Contains(msg, kwRateLimit)
        \/ Contains(msg, kwTimeout)
        \/ Contains(msg, kwTemporarilyUnavailable)
        \/ Contains(msg, kw503)
        \/ Contains(msg, kw502)
        \/ Contains(msg, kw504)

\* impl IsRetryable for anyhow::Error: is_retryable
is_retryable(e) ==
    IF e.cli THEN CliIsRetryable(e)
    ELSE LET msg == ToLower(e.message)
         IN  \/ Contains(msg, kwRateLimit)
             \/ Contains(msg, kw429)
             \/ Contains(msg, kwTimeout)
             \/ Contains(msg, kwConnection)
             \/ Contains(msg, kwTemporarilyUnavailable)
             \/ Contains(msg, kw503)
             \/ Contains(msg, kw502)
             \/ Contains(msg, kw504)

\* impl IsRetryable for anyhow::Error: retry_after
retry_after(e) == IF e.cli THEN e.retry_after ELSE None

(***************************************************************************)
(* The transport: one request/response cycle (LinearClient::query_once).   *)
(***************************************************************************)
NoHeaders == [retry_after |-> None, request_id |-> "none"]
NoErrors == [present |-> FALSE, isArray |-> FALSE, messages |-> << >>]

\* the response of an attempt that never reached the service
SendFailure ==
    [sent |-> FALSE, status |-> 0, headers |-> NoHeaders, body |-> "none",
     errors |-> NoErrors]

\* statuses the service may answer with besides 200
ErrorStatuses == {400, 401, 403, 404, 408, 429, 500, 502, 503, 504, 599}

\* header and body combinations of a non-2xx response
ErrorShapes ==
    { [headers |-> NoHeaders, body |-> "empty"],
      [headers |-> [retry_after |-> 2, request_id |-> "req-1"], body |-> "text"],
      [headers |-> [retry_after |-> None, request_id |-> "req-1"], body |-> "json"],
      [headers |-> [retry_after |-> 60, request_id |-> "req-2"], body |-> "empty"] }

\* values a 2xx body may carry under its top-level "errors" key
ErrorsValues ==
    { [present |-> TRUE, isArray |-> FALSE, messages |-> << >>],
      [present |-> TRUE, isArray |-> TRUE, messages |-> << >>],
      [present |-> TRUE, isArray |-> TRUE, messages |-> <<tEntityNotFound>>],
      [present |-> TRUE, isArray |-> TRUE,
       messages |-> <<tEntityNotFound, tQueryTimeout>>] }

Responses ==
    {SendFailure}
    \cup { [sent |-> TRUE, status |-> st, headers |-> sh.headers, body |-> sh.body,
            errors |-> NoErrors] : st \in ErrorStatuses, sh \in ErrorShapes }
    \cup { [sent |-> TRUE, status |-> 200, headers |-> NoHeaders, body |-> b,
            errors |-> NoErrors] : b \in {"data", "garbage"} }
    \cup { [sent |-> TRUE, status |-> 200, headers |-> NoHeaders, body |-> "data",
            errors |-> ev] : ev \in ErrorsValues }

\* the value of "no response yet"
NoResponse ==
    [sent |-> FALSE, status |-> -1, headers |-> NoHeaders, body |-> "none",
     errors |-> NoErrors]

\* details built from a non-empty error body: the parsed JSON, else {"body": body}
BodyDetails(body) ==
    [NoDetails EXCEPT !.kind = IF body = "json" THEN "body_json" ELSE "body_text",
                      !.body = body]

\* details built from the "errors" value of a 2xx body
GraphQLDetails(errors) ==
    [NoDetails EXCEPT !.kind = "graphql", !.isArray = errors.isArray,
                      !.messages = errors.messages]

Ok == [ok |-> TRUE, err |-> NoError]
Err(e) == [ok |-> FALSE, err |-> e]

\* variant of query_once that decodes the body as JSON before it looks at the
\* status
query_once_DecodeFirst(resp) ==
    IF ~resp.sent THEN Err(OtherError(tSendFailed))
    ELSE IF resp.body \in {"empty", "text", "garbage"}
    THEN Err(OtherError(tDecodeFailed))
    ELSE IF ~is_success(resp.status)
    THEN Err(with_details(http_error(resp.status, resp.headers, tResource),
                          BodyDetails(resp.body)))
    ELSE IF resp.errors.present
    THEN Err(with_details(CliError(1, tGraphQLError), GraphQLDetails(resp.errors)))
    ELSE Ok

\* LinearClient::query_once on the response the transport got
query_once(resp) ==
    IF ~resp.sent THEN Err(OtherError(tSendFailed))
    ELSE IF ~is_success(resp.status)
    THEN LET e == http_error(resp.status, resp.headers, tResource)
         IN  IF resp.body # "empty"
             THEN Err(with_details(e, BodyDetails(resp.body)))
             ELSE Err(e)
    ELSE IF resp.body = "garbage" THEN Err(OtherError(tDecodeFailed))
    ELSE IF resp.errors.present
    THEN Err(with_details(CliError(1, tGraphQLError), GraphQLDetails(resp.errors)))
    ELSE Ok

(***************************************************************************)
(* Backoff policy (RetryConfig).                                           *)
(***************************************************************************)
InitialDelayMs == 1000
MaxDelayMs == 30000
ExponentialBase == 2
DefaultMaxRetries == 3

RECURSIVE Pow(_, _)
Pow(b, n) == IF n = 0 THEN 1 ELSE b * Pow(b, n - 1)

Max(a, b) == IF a > b THEN a ELSE b

\* values of rand::thread_rng().gen_range(0..=2 * jitter_range) the model draws
JitterDraws(jitter_range) == {0, jitter_range, 2 * jitter_range}

\* variant of the backoff that grows by initial_delay per attempt
backoff_ms_Linear(att) == Min(InitialDelayMs * (att + 1), MaxDelayMs)

\* delay_for_attempt: the backoff before jitter, clamped to the maximum
backoff_ms(att) == Min(InitialDelayMs * Pow(ExponentialBase, att), MaxDelayMs)

\* variant of the jitter range that is half of the backoff
jitter_range_Half(att) == backoff_ms(att) \div 2

\* delay_for_attempt: jitter_range
jitter_range(att) == backoff_ms(att) \div 4

\* variant of delay_for_attempt that clamps the server's hint like the backoff
delay_for_attempt_ClampsHint(att, hint, draw) ==
    IF hint # None THEN Min(hint * 1000, MaxDelayMs)
    ELSE LET jitter == IF jitter_range(att) > 0 THEN draw - jitter_range(att) ELSE 0
         IN  Max(backoff_ms(att) + jitter, 0)

\* RetryConfig::delay_for_attempt, in ms, for one jitter draw
delay_for_attempt(att, hint, draw) ==
    IF hint # None THEN hint * 1000
    ELSE LET jitter == IF jitter_range(att) > 0 THEN draw - jitter_range(att) ELSE 0
         IN  Max(backoff_ms(att) + jitter, 0)

(***************************************************************************)
(* State.                                                                  *)
(***************************************************************************)
VARIABLES
    cache,      \* bucket -> entry of the reference-data cache
    pc,         \* position of the resolve call in progress ("idle" when none)
    entry,      \* resolver entry point of the call
    input,      \* raw input of the call
    noCache,    \* cache_opts.no_cache of the call
    result,     \* id returned by the call (NoId until it succeeds)
    err,        \* failure returned by the call ("none" until it fails)
    net,        \* requests the call has issued through LinearClient::query
    reads,      \* cache reads the call has made
    trace,      \* positions the call has been in, in order
    acc,        \* items accumulated by the page loop of the call
    cursor,     \* cursor of the next page request
    seen,       \* the collection the latest strategy of the call searched
    cache0,     \* the cache as it was when the call started
    rpc,        \* position of the query in progress in with_retry
    max_retries,\* RetryConfig.max_retries of the client
    attempt,    \* loop index of with_retry
    attempts,   \* transport attempts the query has made
    sleeps,     \* sleeps the query has made
    lastDelay,  \* duration of the latest sleep, in ms (None before any)
    lastResp,   \* response of the latest transport attempt
    last_error, \* with_retry's last_error
    allRetryable, \* every attempt so far failed with a retryable error
    rout,       \* what the query returned
    scope,      \* team_id argument of a team-scoped resolver
    include,    \* includeArchived of the current search pass
    pass,       \* search passes completed (the `for _ in 0..2` index)
    pages,      \* page requests of the current search pass
    labels,     \* the inputs of resolve_label_ids
    resolved,   \* the ids resolve_label_ids has collected
    op,         \* the client method in progress: "query" or "mutate"
    received,   \* requests of the call in progress that reached the service
    fetchResp,  \* response fetch_bytes got (NoResponse when none is held)
    fetchOut,   \* what fetch_bytes returned
    default_retry, \* DEFAULT_RETRY: the max_retries it holds, None while unset
    client,     \* retry.max_retries of the client built last (None: no client)
    built,      \* constructor that built the client
    asked,      \* retry_count passed to the constructor (None when it takes none)
    defaultAtBuild, \* DEFAULT_RETRY as it was when the client was built
    firstSet,   \* argument of the first set_default_retry call (None: no call)
    lastSet,    \* argument of the latest set_default_retry call
    bAttempt,   \* attempt passed to the latest delay_for_attempt call
    bHint,      \* retry_after passed to that call
    bSeed,      \* position of the random draw in its range, in JitterSteps-ths
    bDelay,     \* the delay it returned, in ms
    bNext,      \* the delay for the attempt after it, same hint and draw position
    mTeams,     \* the collection passed to the latest find_team_id call
    mInput,     \* the input passed to that call
    mFound,     \* the id it returned (NoId for None)
    bulk,       \* the bulk command in progress: its tasks, collections and report
    walk,       \* the paginate_nodes call in progress: its options, cursor and pages
    shape,      \* the latest is_uuid call: its argument and its answer
    tasks       \* the concurrent resolutions in progress that share the cache

callVars == <<op, received>>
fetchVars == <<fetchResp, fetchOut>>
clientVars == <<default_retry, client, built, asked, defaultAtBuild, firstSet,
                lastSet>>
backoffVars == <<bAttempt, bHint, bSeed, bDelay, bNext>>
matchVars == <<mTeams, mInput, mFound>>

bulkVars == <<bulk>>
otherVars == <<bulkVars, walk, shape, tasks>>

retryVars == <<rpc, max_retries, attempt, attempts, sleeps, lastDelay, lastResp,
               last_error, allRetryable, rout, callVars, fetchVars, clientVars,
               backoffVars, matchVars, otherVars>>

resolveVars == <<pc, entry, input, noCache, result, err, net, reads, trace,
                 acc, cursor, seen, scope, include, pass, pages, labels, resolved>>

directVars == <<scope, include, pass, pages, labels, resolved>>

GenericKinds == {"team", "user", "label"}

\* inputs a caller may pass to each generic entry point
InputsOf(kind) ==
    CASE kind = "team" -> {seng, sOPS, szz, Uuid("9")}
      [] kind = "user" -> {sann, sBob, sme, sMe, szz, Uuid("9")}
      [] OTHER -> {sBUG, szz, Uuid("9")}

\* order-preserving sub-collections: what a server-side filter may return
SubCollections(coll) ==
    {SelectSeq(coll, LAMBDA x : x \in S) :
        S \in SUBSET {coll[i] : i \in 1..Len(coll)}}

Terminal == {"Done", "NotFound", "Error", "InvalidFormat"}

IdleCall ==
    /\ pc = "idle" /\ entry = "none" /\ input = NoId /\ noCache = FALSE
    /\ result = NoId /\ err = "none" /\ net = 0 /\ reads = 0
    /\ trace = << >> /\ acc = << >> /\ cursor = 0 /\ seen = << >>
    /\ scope = NoId /\ include = FALSE /\ pass = 0 /\ pages = 0
    /\ labels = << >> /\ resolved = << >>

\* no paginate_nodes call is in progress
IdleWalk ==
    [pc |-> "idle", coll |-> << >>, opts |-> ResolvePagination, cursor |-> 0,
     acc |-> << >>, fetches |-> 0, out |-> << >>]

\* is_uuid has not been called
NoShape == [value |-> << >>, accepted |-> FALSE]

\* the resolutions a process may run concurrently
TaskIds == {1, 2}

\* no concurrent resolution is in progress
IdleTask ==
    [pc |-> "idle", kind |-> "none", input |-> NoId, nc |-> FALSE,
     coll |-> << >>, cursor |-> 0, acc |-> << >>, read |-> NoEntry,
     wrote |-> << >>, stamp |-> 0]
IdleTasks == [t \in TaskIds |-> IdleTask]

\* no bulk command is in progress
IdleBulk ==
    [pc |-> "idle", cmd |-> "none", user |-> "none", issues |-> << >>,
     task |-> << >>, order |-> << >>, collected |-> FALSE, infos |-> << >>,
     failures |-> << >>, sent |-> << >>, updated |-> << >>, next |-> 0,
     results |-> << >>]

\* no query is in progress
IdleQuery ==
    /\ rpc = "idle" /\ max_retries = 0 /\ attempt = 0 /\ attempts = 0
    /\ sleeps = 0 /\ lastDelay = None /\ lastResp = NoResponse
    /\ last_error = NoError /\ allRetryable = TRUE
    /\ rout = [kind |-> "none", err |-> NoError]
    /\ op = "none" /\ received = 0
    /\ fetchResp = NoResponse /\ fetchOut = [kind |-> "none", err |-> NoError]
    /\ default_retry = None /\ client = None /\ built = "none"
    /\ asked = None /\ defaultAtBuild = None /\ firstSet = None /\ lastSet = None
    /\ bAttempt = 0 /\ bHint = None /\ bSeed = 0 /\ bDelay = None /\ bNext = None
    /\ mTeams = << >> /\ mInput = NoId /\ mFound = NoId
    /\ bulk = IdleBulk /\ walk = IdleWalk /\ shape = NoShape /\ tasks = IdleTasks

Init ==
    /\ cache = [b \in Buckets |-> NoEntry]
    /\ cache0 = [b \in Buckets |-> NoEntry]
    /\ IdleCall
    /\ IdleQuery

\* move the call to position p
Goto(p) == pc' = p /\ trace' = Append(trace, p)

(***************************************************************************)
(* resolve_team_id / resolve_user_id / resolve_label_id and resolve_id.    *)
(***************************************************************************)
\* the texts of the resolvers' not-found messages
tTeamNotFound ==
    <<"T","e","a","m"," ","n","o","t"," ","f","o","u","n","d",":"," ">>
tTeamListHint ==
    <<"."," ","U","s","e"," ","l","i","n","e","a","r","-","c","l","i"," ",
        "t"," ","l","i","s","t"," ","t","o"," ","s","e","e"," ","a","v","a",
        "i","l","a","b","l","e"," ","t","e","a","m","s",".">>
tUserNotFound ==
    <<"U","s","e","r"," ","n","o","t"," ","f","o","u","n","d",":"," ">>
tLabelNotFound ==
    <<"L","a","b","e","l"," ","n","o","t"," ","f","o","u","n","d",":"," ">>
kwList == <<"l","i","s","t">>

\* ResolverConfig.not_found_msg as each generic entry point formats it; it is
\* the message resolve_id fails with when the full fetch has no match
not_found_msg(kind, inp) ==
    CASE kind = "team" -> tTeamNotFound \o inp \o tTeamListHint
      [] kind = "user" -> tUserNotFound \o inp
      [] OTHER -> tLabelNotFound \o inp

\* a command handler calls a generic resolver
ResolveBegin(kind, inp, nc) ==
    /\ pc = "idle"
    /\ pc' = "ShapeCheck" /\ trace' = <<"ShapeCheck">>
    /\ entry' = kind /\ input' = inp /\ noCache' = nc
    /\ cache0' = cache
    /\ UNCHANGED <<cache, result, err, net, reads, acc, cursor, seen>>
    /\ UNCHANGED directVars
    /\ UNCHANGED retryVars

\* the entry point's own checks, before resolve_id is entered
ResolveShapeCheck ==
    /\ pc = "ShapeCheck" /\ entry \in GenericKinds
    /\ IF entry = "user" /\ EqIgnoreCase(input, sme)
       THEN Goto("Viewer") /\ UNCHANGED result
       ELSE IF is_uuid(input)
       THEN Goto("Done") /\ result' = input
       ELSE IF ~noCache
       THEN Goto("CacheProbe") /\ UNCHANGED result
       ELSE Goto("FilteredQuery") /\ UNCHANGED result
    /\ UNCHANGED <<cache, entry, input, noCache, err, net, reads, acc, cursor,
                   seen, cache0>>
    /\ UNCHANGED directVars
    /\ UNCHANGED retryVars

\* resolve_user_id on "me": the viewer query
ResolveViewer ==
    /\ pc = "Viewer"
    /\ net' = net + 1
    /\ \E outcome \in {"ok", "no_id", "failed"} :
         CASE outcome = "ok" -> Goto("Done") /\ result' = ViewerId /\ UNCHANGED err
           [] outcome = "no_id" -> Goto("Error") /\ err' = "no_viewer" /\ UNCHANGED result
           [] OTHER -> Goto("Error") /\ err' = "transport" /\ UNCHANGED result
    /\ UNCHANGED <<cache, entry, input, noCache, reads, acc, cursor, seen, cache0>>
    /\ UNCHANGED directVars
    /\ UNCHANGED retryVars

\* variant of the cache probe that goes on to the filtered query on a hit
ResolveCacheProbe_IgnoresHit ==
    /\ pc = "CacheProbe"
    /\ reads' = reads + 1
    /\ \E expired \in BOOLEAN :
         seen' = CacheGet(cache, CacheTypeOf(entry), expired).data
    /\ Goto("FilteredQuery")
    /\ UNCHANGED <<cache, entry, input, noCache, result, err, net, acc, cursor, cache0>>
    /\ UNCHANGED directVars
    /\ UNCHANGED retryVars

\* resolve_id: the cache probe
ResolveCacheProbe ==
    /\ pc = "CacheProbe"
    /\ reads' = reads + 1
    /\ \E expired \in BOOLEAN :
         LET cached == CacheGet(cache, CacheTypeOf(entry), expired)
             id == Finder(entry, cached.data, input)
         IN  /\ seen' = cached.data
             /\ IF cached.present /\ id # NoId
                THEN Goto("Done") /\ result' = id
                ELSE Goto("FilteredQuery") /\ UNCHANGED result
    /\ UNCHANGED <<cache, entry, input, noCache, err, net, acc, cursor, cache0>>
    /\ UNCHANGED directVars
    /\ UNCHANGED retryVars

\* variant of the filtered query that caches the nodes it matched in
ResolveFilteredQuery_CachesNodes ==
    /\ pc = "FilteredQuery"
    /\ net' = net + 1
    /\ \E nodes \in SubCollections(FullCollection(CacheTypeOf(entry))) :
         LET id == Finder(entry, nodes, input)
         IN  /\ seen' = nodes
             /\ IF id # NoId
                THEN /\ Goto("Done") /\ result' = id
                     /\ cache' = IF ~noCache
                                 THEN CacheSet(cache, CacheTypeOf(entry), nodes)
                                 ELSE cache
                ELSE Goto("FullFetch") /\ UNCHANGED <<result, cache>>
    /\ UNCHANGED <<entry, input, noCache, err, reads, acc, cursor, cache0>>
    /\ UNCHANGED directVars
    /\ UNCHANGED retryVars

\* resolve_id: the server-side filtered query
ResolveFilteredQuery ==
    /\ pc = "FilteredQuery"
    /\ net' = net + 1
    /\ \/ Goto("Error") /\ err' = "transport" /\ UNCHANGED <<result, seen>>
       \/ \E nodes \in SubCollections(FullCollection(CacheTypeOf(entry))) :
            LET id == Finder(entry, nodes, input)
            IN  /\ seen' = nodes
                /\ IF id # NoId
                   THEN Goto("Done") /\ result' = id
                   ELSE Goto("FullFetch") /\ UNCHANGED result
                /\ UNCHANGED err
    /\ UNCHANGED <<cache, entry, input, noCache, reads, acc, cursor, cache0>>
    /\ UNCHANGED directVars
    /\ UNCHANGED retryVars

\* variant of the cache write that ignores the no_cache policy
FullFetchCacheWrite_Always(c, kind, all_items, nc) ==
    CacheSet(c, CacheTypeOf(kind), all_items)

\* variant of the cache write with the policy test inverted
FullFetchCacheWrite_Inverted(c, kind, all_items, nc) ==
    IF nc THEN CacheSet(c, CacheTypeOf(kind), all_items) ELSE c

\* resolve_id: the cache write that follows a completed full fetch
FullFetchCacheWrite(c, kind, all_items, nc) ==
    IF ~nc THEN CacheSet(c, CacheTypeOf(kind), all_items) ELSE c

\* one page request of the full fetch, were the pages cached as they arrive
ResolveFullFetch_WritesEachPage ==
    /\ pc = "FullFetch"
    /\ net' = net + 1
    /\ \/ /\ Goto("Error") /\ err' = "transport"
          /\ acc' = << >>
          /\ UNCHANGED <<cache, result, cursor, seen>>
       \/ LET page == ServerPage(FullCollection(CacheTypeOf(entry)),
                                 ResolvePagination.page_size, cursor)
              all_items == acc \o page.nodes
              id == Finder(entry, all_items, input)
          IN  IF page.hasNextPage
              THEN /\ acc' = all_items /\ cursor' = page.endCursor
                   /\ cache' = FullFetchCacheWrite(cache, entry, all_items, noCache)
                   /\ UNCHANGED <<pc, trace, result, err, seen>>
              ELSE /\ cache' = FullFetchCacheWrite(cache, entry, all_items, noCache)
                   /\ seen' = all_items
                   /\ acc' = << >> /\ cursor' = 0
                   /\ IF id # NoId
                      THEN Goto("Done") /\ result' = id /\ UNCHANGED err
                      ELSE Goto("NotFound") /\ err' = "not_found" /\ UNCHANGED result
    /\ UNCHANGED <<entry, input, noCache, reads, cache0>>
    /\ UNCHANGED directVars
    /\ UNCHANGED retryVars

\* resolve_id: one page request of the full fetch; after the last page the
\* collection is cached and searched
ResolveFullFetch ==
    /\ pc = "FullFetch"
    /\ net' = net + 1
    /\ \/ /\ Goto("Error") /\ err' = "transport"
          /\ acc' = << >>
          /\ UNCHANGED <<cache, result, cursor, seen>>
       \/ LET page == ServerPage(FullCollection(CacheTypeOf(entry)),
                                 ResolvePagination.page_size, cursor)
              all_items == acc \o page.nodes
              id == Finder(entry, all_items, input)
          IN  IF page.hasNextPage
              THEN /\ acc' = all_items /\ cursor' = page.endCursor
                   /\ UNCHANGED <<cache, pc, trace, result, err, seen>>
              ELSE /\ cache' = FullFetchCacheWrite(cache, entry, all_items, noCache)
                   /\ seen' = all_items
                   /\ acc' = << >> /\ cursor' = 0
                   /\ IF id # NoId
                      THEN Goto("Done") /\ result' = id /\ UNCHANGED err
                      ELSE Goto("NotFound") /\ err' = "not_found" /\ UNCHANGED result
    /\ UNCHANGED <<entry, input, noCache, reads, cache0>>
    /\ UNCHANGED directVars
    /\ UNCHANGED retryVars

\* the call has returned to its caller
ResolveReturn ==
    /\ pc \in Terminal
    /\ pc' = "idle" /\ entry' = "none" /\ input' = NoId /\ noCache' = FALSE
    /\ result' = NoId /\ err' = "none" /\ net' = 0 /\ reads' = 0
    /\ trace' = << >> /\ acc' = << >> /\ cursor' = 0 /\ seen' = << >>
    /\ scope' = NoId /\ include' = FALSE /\ pass' = 0 /\ pages' = 0
    /\ labels' = << >> /\ resolved' = << >>
    /\ cache0' = cache
    /\ UNCHANGED cache
    /\ UNCHANGED retryVars


(***************************************************************************)
(* The list commands that share the cache buckets.                         *)
(***************************************************************************)
\* limit the list commands apply when the command line gives none
DefaultListLimit == 100

\* can_use_cache of list_teams, list_users and list_statuses
can_use_cache(nc, opts) ==
    /\ ~nc
    /\ opts.after = None
    /\ opts.before = None
    /\ ~opts.all
    /\ opts.page_size = None
    /\ opts.limit = None

\* the call state once a command has finished
CallCleared ==
    /\ pc' = "idle" /\ entry' = "none" /\ input' = NoId /\ noCache' = FALSE
    /\ result' = NoId /\ err' = "none" /\ net' = 0 /\ reads' = 0
    /\ trace' = << >> /\ acc' = << >> /\ cursor' = 0 /\ seen' = << >>
    /\ scope' = NoId /\ include' = FALSE /\ pass' = 0 /\ pages' = 0
    /\ labels' = << >> /\ resolved' = << >>
    /\ cache0' = cache'
    /\ UNCHANGED retryVars

\* the cache after a list command has paged `payload` for bucket b
ListCacheWrite(c, b, payload, nc) ==
    IF ~nc THEN CacheSet(c, b, payload) ELSE c

\* list_teams
ListTeams(opts, nc) ==
    /\ pc = "idle"
    /\ \E expired, ok \in BOOLEAN :
         LET got == CacheGet(cache, BucketTeams, expired)
             cached == IF can_use_cache(nc, opts) /\ got.present
                       THEN got.data ELSE << >>
             teams == paginate_nodes(ServerTeams,
                                     with_default_limit(opts, DefaultListLimit),
                                     ListPageSize)
         IN  IF cached # << >> \/ ~ok
             THEN cache' = cache
             ELSE cache' = ListCacheWrite(cache, BucketTeams, teams, nc)
    /\ CallCleared

\* list_users; with a team given the members of the resolved team are listed
ListUsers(scoped, opts, nc) ==
    /\ IF scoped THEN pc = "Done" /\ entry = "team" ELSE pc = "idle"
    /\ \E expired, ok \in BOOLEAN :
         LET got == CacheGet(cache, BucketUsers, expired)
             cached == IF can_use_cache(nc, opts) /\ got.present
                       THEN got.data ELSE << >>
             users == paginate_nodes(ServerUsers,
                                     with_default_limit(opts, DefaultListLimit),
                                     ListPageSize)
         IN  IF scoped \/ cached # << >> \/ ~ok
             THEN cache' = cache
             ELSE cache' = ListCacheWrite(cache, BucketUsers, users, nc)
    /\ CallCleared

\* name of the team with the given id, as the team query returns it
TeamName(teamId) ==
    (CHOOSE t \in {ServerTeams[i] : i \in 1..Len(ServerTeams)} : t.id = teamId).name

\* list_statuses, once its resolve_team_id call has returned the team id
ListStatuses(opts) ==
    /\ pc = "Done" /\ entry = "team"
    /\ \E expired, ok \in BOOLEAN :
         LET team_id == result
             known == team_id \in ServerTeamIds
             got == IF known
                    THEN CacheGet(cache, BucketStatuses(team_id), expired)
                    ELSE NoEntry
             cached == IF can_use_cache(noCache, opts) /\ got.present
                       THEN got.data.states ELSE << >>
             states == paginate_nodes(ServerStates(team_id),
                                      with_default_limit(opts, DefaultListLimit),
                                      ListPageSize)
         IN  IF cached # << >> \/ ~ok \/ ~known
             THEN cache' = cache
             ELSE cache' = ListCacheWrite(cache, BucketStatuses(team_id),
                              [team_name |-> TeamName(team_id), states |-> states],
                              noCache)
    /\ CallCleared

(***************************************************************************)
(* Specification of the resolver, the cache and the list commands.         *)
(***************************************************************************)
vars == <<cache, pc, entry, input, noCache, result, err, net, reads, trace,
          acc, cursor, seen, cache0, rpc, max_retries, attempt, attempts,
          sleeps, lastDelay, lastResp, last_error, allRetryable, rout,
          scope, include, pass, pages, labels, resolved, callVars, fetchVars,
          clientVars, backoffVars, matchVars, otherVars>>

Next ==
    \/ \E kind \in GenericKinds : \E inp \in InputsOf(kind) : \E nc \in BOOLEAN :
          ResolveBegin(kind, inp, nc)
    \/ ResolveShapeCheck
    \/ ResolveViewer
    \/ ResolveCacheProbe
    \/ ResolveFilteredQuery
    \/ ResolveFullFetch
    \/ ResolveReturn
    \/ \E opts \in PaginationChoices : \E nc \in BOOLEAN : ListTeams(opts, nc)
    \/ \E scoped \in BOOLEAN : \E opts \in PaginationChoices : \E nc \in BOOLEAN :
          ListUsers(scoped, opts, nc)
    \/ \E opts \in PaginationChoices : ListStatuses(opts)

Spec == Init /\ [][Next]_vars


(***************************************************************************)
(* The resolvers that do not go through resolve_id: issue, project,        *)
(* project status, initiative, cycle, workflow state, team labels.         *)
(***************************************************************************)
Digits == <<"0","1","2","3","4","5","6","7","8","9">>

\* char::is_ascii_digit
is_ascii_digit(c) == \E i \in 1..10 : Digits[i] = c

\* char::is_ascii_alphanumeric
is_ascii_alphanumeric(c) ==
    \/ is_ascii_digit(c)
    \/ \E i \in 1..26 : UpperChars[i] = c \/ LowerChars[i] = c

\* variant of is_issue_identifier that does not look at the number part
is_issue_identifier_AnyNumber(value) ==
    LET dash == FirstIndex({i \in 1..Len(value) : value[i] = "-"})
        prefix == IF dash = 0 THEN value ELSE SubSeq(value, 1, dash - 1)
        number == IF dash = 0 THEN << >> ELSE SubSeq(value, dash + 1, Len(value))
    IN  /\ prefix # << >> /\ number # << >>
        /\ \A i \in 1..Len(prefix) :
              is_ascii_alphanumeric(prefix[i]) \/ prefix[i] = "_"

\* is_issue_identifier
is_issue_identifier(value) ==
    LET dash == FirstIndex({i \in 1..Len(value) : value[i] = "-"})
        prefix == IF dash = 0 THEN value ELSE SubSeq(value, 1, dash - 1)
        number == IF dash = 0 THEN << >> ELSE SubSeq(value, dash + 1, Len(value))
    IN  /\ prefix # << >> /\ number # << >>
        /\ \A i \in 1..Len(prefix) :
              is_ascii_alphanumeric(prefix[i]) \/ prefix[i] = "_"
        /\ \A i \in 1..Len(number) : is_ascii_digit(number[i])

RECURSIVE DigitsValue(_)
DigitsValue(ds) ==
    IF ds = << >> THEN 0
    ELSE 10 * DigitsValue(SubSeq(ds, 1, Len(ds) - 1))
         + (CHOOSE d \in 0..9 : Digits[d + 1] = ds[Len(ds)])

\* str::parse::<i64>: an optional sign, then at least one digit
parse_i64(text) ==
    LET signed == text # << >> /\ text[1] \in {"+", "-"}
        ds == IF signed THEN Tail(text) ELSE text
    IN  IF ds # << >> /\ \A i \in 1..Len(ds) : is_ascii_digit(ds[i])
        THEN [ok |-> TRUE,
              value |-> IF signed /\ text[1] = "-"
                        THEN 0 - DigitsValue(ds) ELSE DigitsValue(ds)]
        ELSE [ok |-> FALSE, value |-> 0]

sIssue == <<"E","N","G","-","1">>
sNoDash == <<"E","N","G","1">>
sTwoDash == <<"E","-","1","-","2">>
sTwo == <<"2">>
sNoPrefix == <<"-","1">>
sNoNumber == <<"E","N","G","-">>
sBadPrefix == <<"E"," ","G","-","1">>
sBadNumber == <<"E","N","G","-","1","a">>
sUnderscore == <<"a","_","9","-","1","2">>

IssueId == Uuid("c")
NamedId == Uuid("d")

ServerProjectStatuses ==
    << [id |-> Uuid("e"), name |-> sCore, type |-> sbug],
       [id |-> Uuid("f"), name |-> sbug, type |-> sOps] >>

\* cycles of a team the service knows
ServerCycles ==
    << [id |-> Uuid("7"), name |-> sTwo, number |-> 1],
       [id |-> Uuid("8"), name |-> sCore, number |-> 2] >>

DirectKinds ==
    {"issue", "project", "project_status", "initiative", "cycle", "state",
     "label_ids"}

\* arguments a caller may pass to each of these resolvers
DirectInputsOf(kind) ==
    CASE kind = "issue" -> {sIssue, sUnderscore, sNoDash, sTwoDash, sNoPrefix,
                            sNoNumber, sBadPrefix, sBadNumber, NoId, Uuid("9")}
      [] kind \in {"project", "initiative"} -> {sCore, Uuid("9")}
      [] kind = "project_status" -> {sBUG, szz, Uuid("9")}
      [] kind = "cycle" -> {sTwo, sCore, szz, Uuid("9")}
      [] kind = "state" -> {sOPS, szz, Uuid("9")}
      [] OTHER -> {NoId}
ScopesOf(kind) ==
    IF kind \in {"cycle", "state", "label_ids"} THEN {Uuid("1"), Uuid("9")} ELSE {NoId}
ArchivedOf(kind) ==
    IF kind \in {"issue", "project", "initiative"} THEN BOOLEAN ELSE {FALSE}
LabelListsOf(kind) ==
    IF kind = "label_ids"
    THEN {<< >>, <<Uuid("9")>>, <<sBUG>>, <<Uuid("9"), szz>>, <<sBUG, Uuid("9")>>}
    ELSE {<< >>}

\* iterations of `for _ in 0..2`
SearchPasses == 2
\* page requests of one search pass the model follows
MaxPages == 3

\* a command handler calls one of these resolvers
DirectBegin(kind, inp, team_id, include_archived, labs) ==
    /\ pc = "idle"
    /\ pc' = "ShapeCheck" /\ trace' = <<"ShapeCheck">>
    /\ entry' = kind /\ input' = inp /\ scope' = team_id
    /\ include' = include_archived /\ labels' = labs
    /\ cache0' = cache
    /\ UNCHANGED <<cache, noCache, result, err, net, reads, acc, cursor, seen,
                   pass, pages, resolved>>
    /\ UNCHANGED retryVars

\* the checks each resolver makes before its first request
DirectShapeCheck ==
    /\ pc = "ShapeCheck" /\ entry \in DirectKinds
    /\ IF entry = "label_ids"
       THEN IF labels = << >>
            THEN Goto("Done") /\ UNCHANGED <<result, err>>
            ELSE Goto("Query") /\ UNCHANGED <<result, err>>
       ELSE IF is_uuid(input)
       THEN Goto("Done") /\ result' = input /\ UNCHANGED err
       ELSE IF entry = "issue" /\ ~is_issue_identifier(input)
       THEN Goto("InvalidFormat") /\ err' = "invalid_format" /\ UNCHANGED result
       ELSE IF entry \in {"issue", "project", "initiative"}
       THEN Goto("Search") /\ UNCHANGED <<result, err>>
       ELSE Goto("Query") /\ UNCHANGED <<result, err>>
    /\ cursor' = IF entry = "issue" THEN None ELSE cursor
    /\ UNCHANGED <<cache, cache0, entry, input, noCache, net, reads, acc, seen>>
    /\ UNCHANGED directVars
    /\ UNCHANGED retryVars

\* the end of a search pass that found nothing, were there no
\* `if include { break }`
EndPass_NoBreak ==
    IF pass + 1 >= SearchPasses
    THEN /\ Goto("NotFound") /\ err' = "not_found"
         /\ UNCHANGED <<include, pass, pages, cursor>>
    ELSE /\ include' = TRUE /\ pass' = pass + 1 /\ pages' = 0
         /\ cursor' = IF entry = "issue" THEN None ELSE cursor
         /\ UNCHANGED <<pc, trace, err>>

\* the end of a search pass that found nothing: `if include { break }`
EndPass ==
    IF include \/ pass + 1 >= SearchPasses
    THEN /\ Goto("NotFound") /\ err' = "not_found"
         /\ UNCHANGED <<include, pass, pages, cursor>>
    ELSE /\ include' = TRUE /\ pass' = pass + 1 /\ pages' = 0
         /\ cursor' = IF entry = "issue" THEN None ELSE cursor
         /\ UNCHANGED <<pc, trace, err>>

\* resolve_issue_id: one page request of a search pass
SearchIssuePage ==
    /\ pc = "Search" /\ entry = "issue" /\ pages < MaxPages
    /\ net' = net + 1
    /\ \/ /\ Goto("Error") /\ err' = "transport"
          /\ UNCHANGED <<result, include, pass, pages, cursor>>
       \/ \E match, hasNextPage \in BOOLEAN : \E endCursor \in {None, 1, 2} :
            IF match
            THEN /\ Goto("Done") /\ result' = IssueId
                 /\ UNCHANGED <<err, include, pass, pages, cursor>>
            ELSE IF hasNextPage /\ endCursor # None
            THEN /\ cursor' = endCursor /\ pages' = pages + 1
                 /\ UNCHANGED <<pc, trace, result, err, include, pass>>
            ELSE EndPass /\ UNCHANGED result
    /\ UNCHANGED <<cache, cache0, entry, input, noCache, reads, acc, seen, scope,
                   labels, resolved>>
    /\ UNCHANGED retryVars

\* resolve_project_id and resolve_initiative_id: one search pass
SearchByName ==
    /\ pc = "Search" /\ entry \in {"project", "initiative"}
    /\ net' = net + 1
    /\ \/ /\ Goto("Error") /\ err' = "transport"
          /\ UNCHANGED <<result, include, pass, pages, cursor>>
       \/ \E found \in BOOLEAN :
            IF found
            THEN /\ Goto("Done") /\ result' = NamedId
                 /\ UNCHANGED <<err, include, pass, pages, cursor>>
            ELSE EndPass /\ UNCHANGED result
    /\ UNCHANGED <<cache, cache0, entry, input, noCache, reads, acc, seen, scope,
                   labels, resolved>>
    /\ UNCHANGED retryVars

\* the match of resolve_project_status_id: by type first, then by name
find_project_status(statuses, status) ==
    LET status_lower == ToLower(status)
        t == FirstIndex({i \in 1..Len(statuses) :
                 EqIgnoreCase(statuses[i].type, status_lower)})
        n == FirstIndex({i \in 1..Len(statuses) :
                 EqIgnoreCase(statuses[i].name, status_lower)})
    IN  IF t # 0 THEN statuses[t].id
        ELSE IF n # 0 THEN statuses[n].id
        ELSE NoId

\* the loop of resolve_cycle_id: the first cycle whose number or name matches
find_cycle(cycles, cycle) ==
    LET numeric == parse_i64(cycle)
        i == FirstIndex({j \in 1..Len(cycles) :
                 \/ numeric.ok /\ cycles[j].number = numeric.value
                 \/ EqIgnoreCase(cycles[j].name, cycle)})
    IN  IF i # 0 THEN cycles[i].id ELSE NoId

\* the single request of the project status, cycle and state resolvers, and
\* the match on its result
DirectQuery ==
    /\ pc = "Query" /\ entry \in {"project_status", "cycle", "state"}
    /\ net' = net + 1
    /\ \/ Goto("Error") /\ err' = "transport" /\ UNCHANGED result
       \/ IF entry = "cycle" /\ scope \notin ServerTeamIds
          THEN Goto("Error") /\ err' = "team_not_found" /\ UNCHANGED result
          ELSE LET id == CASE entry = "project_status" ->
                               find_project_status(ServerProjectStatuses, input)
                           [] entry = "cycle" -> find_cycle(ServerCycles, input)
                           [] OTHER -> find_label_id(ServerStates(scope), input)
               IN  IF id # NoId
                   THEN Goto("Done") /\ result' = id /\ UNCHANGED err
                   ELSE Goto("NotFound") /\ err' = "not_found" /\ UNCHANGED result
    /\ UNCHANGED <<cache, cache0, entry, input, noCache, reads, acc, cursor, seen>>
    /\ UNCHANGED directVars
    /\ UNCHANGED retryVars

\* labels of a team, as the team labels query returns them
ServerTeamLabels(team_id) ==
    IF team_id \in ServerTeamIds THEN ServerLabels ELSE << >>

RECURSIVE ResolveEach(_, _)
\* the loop of resolve_label_ids over its inputs: the ids collected, or a
\* failure at the first label that is neither an id nor a known name
ResolveEach(labs, available) ==
    IF labs = << >> THEN [ok |-> TRUE, ids |-> << >>]
    ELSE LET label == Head(labs)
             id == IF is_uuid(label) THEN label ELSE find_label_id(available, label)
             rest == ResolveEach(Tail(labs), available)
         IN  IF id = NoId \/ ~rest.ok THEN [ok |-> FALSE, ids |-> << >>]
             ELSE [ok |-> TRUE, ids |-> <<id>> \o rest.ids]

\* resolve_label_ids: the team labels request, then the loop over the inputs
QueryLabels ==
    /\ pc = "Query" /\ entry = "label_ids"
    /\ net' = net + 1
    /\ \/ Goto("Error") /\ err' = "transport" /\ UNCHANGED resolved
       \/ LET r == ResolveEach(labels, ServerTeamLabels(scope))
          IN  IF r.ok
              THEN Goto("Done") /\ resolved' = r.ids /\ UNCHANGED err
              ELSE Goto("NotFound") /\ err' = "not_found" /\ UNCHANGED resolved
    /\ UNCHANGED <<cache, cache0, entry, input, noCache, result, reads, acc, cursor,
                   seen, scope, include, pass, pages, labels>>
    /\ UNCHANGED retryVars

NextDirect ==
    \/ \E kind \in GenericKinds : \E inp \in InputsOf(kind) : \E nc \in BOOLEAN :
          ResolveBegin(kind, inp, nc)
    \/ ResolveShapeCheck
    \/ ResolveViewer
    \/ ResolveCacheProbe
    \/ ResolveFilteredQuery
    \/ ResolveFullFetch
    \/ \E kind \in DirectKinds : \E inp \in DirectInputsOf(kind) :
         \E team_id \in ScopesOf(kind) : \E arch \in ArchivedOf(kind) :
           \E labs \in LabelListsOf(kind) :
              DirectBegin(kind, inp, team_id, arch, labs)
    \/ DirectShapeCheck
    \/ SearchIssuePage
    \/ SearchByName
    \/ DirectQuery
    \/ QueryLabels
    \/ ResolveReturn

SpecDirect == Init /\ [][NextDirect]_vars

(***************************************************************************)
(* The retrying client: LinearClient::query over with_retry.               *)
(***************************************************************************)
\* largest retry count a client is built with in the model
MaxRetriesBound == 3

\* RetryConfig::new(retry_count).max_retries
RetryConfigNew(retry_count) == retry_count

\* RetryConfig::no_retry().max_retries
RetryConfigNoRetry == 0

\* variant of the cell that takes every value it is given
OnceLockSet_Overwrites(cell, value) == value

\* OnceLock::set: the cell takes the value only while it is empty
OnceLockSet(cell, value) == IF cell = None THEN value ELSE cell

\* default_retry_config: DEFAULT_RETRY.get().copied().unwrap_or_default()
default_retry_config(cell) == IF cell # None THEN cell ELSE DefaultMaxRetries

\* set_default_retry(retry_count)
SetDefaultRetry(retry_count) ==
    /\ rpc = "idle" /\ fetchResp = NoResponse
    /\ LET config == IF retry_count = 0 THEN RetryConfigNoRetry
                     ELSE RetryConfigNew(retry_count)
       IN  default_retry' = OnceLockSet(default_retry, config)
    /\ firstSet' = IF firstSet = None THEN retry_count ELSE firstSet
    /\ lastSet' = retry_count
    /\ UNCHANGED <<client, built, asked, defaultAtBuild>>
    /\ UNCHANGED <<rpc, max_retries, attempt, attempts, sleeps, lastDelay, lastResp,
                   last_error, allRetryable, rout, callVars, fetchVars,
                   backoffVars, matchVars, otherVars>>
    /\ UNCHANGED <<cache, cache0>> /\ UNCHANGED resolveVars

\* a constructor of LinearClient has run and left a client with `retry`
Constructed(how, retry, retry_count) ==
    /\ rpc = "idle" /\ fetchResp = NoResponse
    /\ client' = retry /\ built' = how /\ asked' = retry_count
    /\ defaultAtBuild' = default_retry
    /\ UNCHANGED <<default_retry, firstSet, lastSet>>
    /\ UNCHANGED <<rpc, max_retries, attempt, attempts, sleeps, lastDelay, lastResp,
                   last_error, allRetryable, rout, callVars, fetchVars,
                   backoffVars, matchVars, otherVars>>
    /\ UNCHANGED <<cache, cache0>> /\ UNCHANGED resolveVars

\* LinearClient::new
ClientNew == Constructed("new", default_retry_config(default_retry), None)

\* LinearClient::new_with_retry(retry_count)
ClientNewWithRetry(retry_count) ==
    Constructed("new_with_retry", RetryConfigNew(retry_count), retry_count)

\* LinearClient::with_api_key
ClientWithApiKey ==
    Constructed("with_api_key", default_retry_config(default_retry), None)

\* with_retry is entered for method o of a client whose retry.max_retries is n
EnterRetry(o, n) ==
    /\ rpc = "idle" /\ fetchResp = NoResponse
    /\ rpc' = "attempt" /\ max_retries' = n
    /\ attempt' = 0 /\ attempts' = 0 /\ sleeps' = 0 /\ lastDelay' = None
    /\ lastResp' = NoResponse /\ last_error' = NoError /\ allRetryable' = TRUE
    /\ rout' = [kind |-> "none", err |-> NoError]
    /\ op' = o /\ received' = 0
    /\ UNCHANGED <<fetchVars, clientVars, backoffVars, matchVars, otherVars>>
    /\ UNCHANGED <<cache, cache0>> /\ UNCHANGED resolveVars

\* LinearClient::query is called on a client built with n retries
QueryBegin(n) == EnterRetry("query", n)

\* variant of mutate that sends the mutation once, through query_once
MutateBegin_SingleAttempt(n) == EnterRetry("mutate", 0)

\* LinearClient::mutate is called on a client built with n retries
MutateBegin(n) == EnterRetry("mutate", n)

\* variant of the decision that also retries on the last attempt
ShouldRetry_OffByOne(att, maxr, e) == att <= maxr /\ is_retryable(e)

\* variant of the decision that does not classify the error
ShouldRetry_AnyError(att, maxr, e) == att < maxr

\* with_retry: the decision taken on the error of an attempt
ShouldRetry(att, maxr, e) == att < maxr /\ is_retryable(e)

\* with_retry: one pass of the loop body up to the sleep or the return
QueryAttempt ==
    /\ rpc = "attempt"
    /\ \E resp \in Responses :
         LET r == query_once(resp)
         IN  /\ lastResp' = resp
             /\ attempts' = attempts + 1
             /\ received' = IF resp.sent THEN received + 1 ELSE received
             /\ allRetryable' = (allRetryable /\ ~r.ok /\ is_retryable(r.err))
             /\ IF r.ok
                THEN /\ rpc' = "returned"
                     /\ rout' = [kind |-> "ok", err |-> NoError]
                     /\ UNCHANGED <<sleeps, lastDelay, last_error>>
                ELSE IF ShouldRetry(attempt, max_retries, r.err)
                THEN /\ \E draw \in JitterDraws(jitter_range(attempt)) :
                          lastDelay' = delay_for_attempt(attempt,
                                                         retry_after(r.err), draw)
                     /\ rpc' = "sleeping"
                     /\ sleeps' = sleeps + 1
                     /\ last_error' = r.err
                     /\ UNCHANGED rout
                ELSE /\ rpc' = "returned"
                     /\ rout' = [kind |-> "err", err |-> r.err]
                     /\ UNCHANGED <<sleeps, lastDelay, last_error>>
    /\ UNCHANGED <<max_retries, attempt, op>>
    /\ UNCHANGED <<fetchVars, clientVars, backoffVars, matchVars, otherVars>>
    /\ UNCHANGED <<cache, cache0>> /\ UNCHANGED resolveVars

\* with_retry: the sleep is over; the loop goes on, or ends on the expect
QueryWake ==
    /\ rpc = "sleeping"
    /\ attempt' = attempt + 1
    /\ IF attempt + 1 <= max_retries
       THEN rpc' = "attempt" /\ UNCHANGED rout
       ELSE /\ rpc' = "returned"
            /\ rout' = IF last_error # NoError
                       THEN [kind |-> "err", err |-> last_error]
                       ELSE [kind |-> "panic", err |-> NoError]
    /\ UNCHANGED <<max_retries, attempts, sleeps, lastDelay, lastResp, last_error,
                   allRetryable>>
    /\ UNCHANGED <<callVars, fetchVars, clientVars, backoffVars, matchVars, otherVars>>
    /\ UNCHANGED <<cache, cache0>> /\ UNCHANGED resolveVars

\* the query has returned to its caller
QueryReturn ==
    /\ rpc = "returned"
    /\ rpc' = "idle" /\ max_retries' = 0 /\ attempt' = 0 /\ attempts' = 0
    /\ sleeps' = 0 /\ lastDelay' = None /\ lastResp' = NoResponse
    /\ last_error' = NoError /\ allRetryable' = TRUE
    /\ rout' = [kind |-> "none", err |-> NoError]
    /\ op' = "none" /\ received' = 0
    /\ UNCHANGED <<fetchVars, clientVars, backoffVars, matchVars, otherVars>>
    /\ UNCHANGED <<cache, cache0>> /\ UNCHANGED resolveVars

\* LinearClient::fetch_bytes on the response the transport got
fetch_bytes(resp) ==
    IF ~resp.sent THEN Err(OtherError(tConnectUploads))
    ELSE IF ~is_success(resp.status)
    THEN Err(http_error(resp.status, resp.headers, tUpload))
    ELSE Ok

\* a command calls fetch_bytes: one request, no retry
FetchBytes ==
    /\ rpc = "idle" /\ fetchResp = NoResponse /\ client # None
    /\ \E resp \in Responses :
         LET r == fetch_bytes(resp)
         IN  /\ fetchResp' = resp
             /\ fetchOut' = IF r.ok THEN [kind |-> "ok", err |-> NoError]
                            ELSE [kind |-> "err", err |-> r.err]
    /\ UNCHANGED <<rpc, max_retries, attempt, attempts, sleeps, lastDelay, lastResp,
                   last_error, allRetryable, rout, callVars, clientVars,
                   backoffVars, matchVars, otherVars>>
    /\ UNCHANGED <<cache, cache0>> /\ UNCHANGED resolveVars

\* fetch_bytes has returned to its caller
FetchReturn ==
    /\ fetchResp # NoResponse
    /\ fetchResp' = NoResponse /\ fetchOut' = [kind |-> "none", err |-> NoError]
    /\ UNCHANGED <<rpc, max_retries, attempt, attempts, sleeps, lastDelay, lastResp,
                   last_error, allRetryable, rout, callVars, clientVars,
                   backoffVars, matchVars, otherVars>>
    /\ UNCHANGED <<cache, cache0>> /\ UNCHANGED resolveVars

NextRetry ==
    \/ \E n \in 0..MaxRetriesBound : ClientNewWithRetry(n)
    \/ client # None /\ QueryBegin(client)
    \/ client # None /\ MutateBegin(client)
    \/ QueryAttempt
    \/ QueryWake
    \/ QueryReturn
    \/ FetchBytes
    \/ FetchReturn

SpecRetry == Init /\ [][NextRetry]_vars

(***************************************************************************)
(* The process-wide default and the clients built from it.                 *)
(***************************************************************************)
\* retry counts the process passes to set_default_retry
DefaultChoices == {0, 2}
\* retry counts the process passes to new_with_retry
ExplicitChoices == {1}

NextClient ==
    \/ \E n \in DefaultChoices : SetDefaultRetry(n)
    \/ ClientNew
    \/ \E n \in ExplicitChoices : ClientNewWithRetry(n)
    \/ ClientWithApiKey
    \/ client # None /\ QueryBegin(client)
    \/ QueryAttempt
    \/ QueryWake
    \/ QueryReturn

SpecClient == Init /\ [][NextClient]_vars

(***************************************************************************)
(* The team matcher on its own: find_team_id over collections in which     *)
(* keys and names match the input at every relative position.              *)
(***************************************************************************)
\* longest collection passed to find_team_id in the model
MaxTeams == 3

\* teams a collection is made of
TeamPool ==
    { [id |-> Uuid("1"), key |-> sENG, name |-> sOps],
      [id |-> Uuid("2"), key |-> sOPS, name |-> seng],
      [id |-> Uuid("e"), key |-> seng, name |-> sCore],
      [id |-> Uuid("f"), key |-> sCore, name |-> sENG] }

\* the collections of at most MaxTeams distinct teams, in every order
TeamLists ==
    UNION { {q \in [1..n -> TeamPool] : \A i, j \in 1..n : i # j => q[i] # q[j]} :
              n \in 0..MaxTeams }

\* inputs passed to find_team_id
TeamInputs == {seng, sOPS, sCore, szz}

\* find_team_id is called on a collection and an input
MatchTeam(teams, team) ==
    /\ mTeams' = teams /\ mInput' = team
    /\ mFound' = find_team_id(teams, team)
    /\ UNCHANGED <<rpc, max_retries, attempt, attempts, sleeps, lastDelay, lastResp,
                   last_error, allRetryable, rout, callVars, fetchVars, clientVars,
                   backoffVars, otherVars>>
    /\ UNCHANGED <<cache, cache0>> /\ UNCHANGED resolveVars

NextMatch == \E teams \in TeamLists : \E team \in TeamInputs : MatchTeam(teams, team)

SpecMatch == Init /\ [][NextMatch]_vars

(***************************************************************************)
(* The backoff policy on its own: delay_for_attempt over attempts, hints   *)
(* and positions of the random draw.                                       *)
(***************************************************************************)
\* largest attempt index delay_for_attempt is called with in the model
MaxBackoffAttempt == 7
\* positions of the draw within 0..=2 * jitter_range the model follows
JitterSteps == 4

\* retry_after values, in seconds, a caller may pass
Hints == {None, 0, 2, 60}

\* the value gen_range(0..=2 * jitter_range) yields at position seed of its range
DrawAt(seed, range) == (seed * 2 * range) \div JitterSteps

\* delay_for_attempt is called for an attempt and for the one after it, with
\* the same hint and the random draw at the same position of its range
DelayFor(att, hint, seed) ==
    /\ bAttempt' = att /\ bHint' = hint /\ bSeed' = seed
    /\ bDelay' = delay_for_attempt(att, hint, DrawAt(seed, jitter_range(att)))
    /\ bNext' = delay_for_attempt(att + 1, hint,
                                  DrawAt(seed, jitter_range(att + 1)))
    /\ UNCHANGED <<rpc, max_retries, attempt, attempts, sleeps, lastDelay, lastResp,
                   last_error, allRetryable, rout, callVars, fetchVars, clientVars,
                   matchVars, otherVars>>
    /\ UNCHANGED <<cache, cache0>> /\ UNCHANGED resolveVars

NextBackoff ==
    \E att \in 0..MaxBackoffAttempt : \E hint \in Hints : \E seed \in 0..JitterSteps :
        DelayFor(att, hint, seed)

SpecBackoff == Init /\ [][NextBackoff]_vars

(***************************************************************************)
(* The bulk commands (src/src/commands/bulk.rs): bulk_assign and           *)
(* bulk_unassign over resolve_issue_infos and batch_update_infos.          *)
(***************************************************************************)
\* largest number of issues a bulk command is given in the model
MaxIssues == 3
\* BATCH_SIZE: the ids one issueBatchUpdate mutation carries (50 in the
\* code, scaled so that a command of MaxIssues issues takes several chunks)
BATCH_SIZE == 2

\* the issue arguments a caller may pass
IssueIds == {"LIN-1", "LIN-2"}
IssueLists == UNION {[1..n -> IssueIds] : n \in 0..MaxIssues}

\* how one get_issue_info call ends: the issue is returned, data.issue is
\* null, or client.query fails
LookupOutcomes == {"found", "null", "error"}
\* how one issueBatchUpdate mutation ends: success true, success not true, or
\* client.mutate fails
UpdateOutcomes == {"success", "refused", "error"}

\* 1, 2, .., n
Indexes(n) == [i \in 1..n |-> i]

\* get_issue_info's failure for an outcome that is not "found"
LookupError(outcome) == IF outcome = "null" THEN "Issue not found" ELSE "query"

\* resolve_issue_infos' return value once join_all has every future's output:
\* the outputs are taken in input order, Ok into infos, Err into failures
resolve_issue_infos(issues, task) ==
    LET good == SelectSeq(Indexes(Len(issues)), LAMBDA i : task[i] = "found")
        bad == SelectSeq(Indexes(Len(issues)), LAMBDA i : task[i] # "found")
    IN  [infos |-> [k \in 1..Len(good) |->
                       [issue_id |-> issues[good[k]], uuid |-> issues[good[k]]]],
         failures |-> [k \in 1..Len(bad) |->
                          [issue_id |-> issues[bad[k]], success |-> FALSE,
                           error |-> LookupError(task[bad[k]])]]]

\* the entries batch_update_infos pushes for one chunk
ChunkResults(chunk, outcome) ==
    [k \in 1..Len(chunk) |->
        [issue_id |-> chunk[k].issue_id, success |-> outcome = "success",
         error |-> CASE outcome = "success" -> "none"
                     [] outcome = "refused" -> "Batch update failed"
                     [] OTHER -> "mutate"]]

BulkRest == <<rpc, max_retries, attempt, attempts, sleeps, lastDelay, lastResp,
              last_error, allRetryable, rout, callVars, fetchVars, clientVars,
              backoffVars, matchVars, cache, cache0, resolveVars, walk, shape,
              tasks>>

\* bulk_assign / bulk_unassign is called: ensure_issues_present reports an
\* empty result list for no issues; bulk_assign resolves the user first, the
\* other starts one lookup future per issue
BulkBegin(cmd, issues) ==
    /\ bulk.pc = "idle"
    /\ bulk' = [bulk EXCEPT
           !.cmd = cmd, !.issues = issues,
           !.task = [i \in 1..Len(issues) |-> "pending"],
           !.pc = IF issues = << >> THEN "reported"
                  ELSE IF cmd = "assign" THEN "user" ELSE "lookups"]
    /\ UNCHANGED BulkRest

\* bulk_assign's resolve_user_id returns: on failure the command reports the
\* error with an empty result list and returns
BulkResolveUser(ok) ==
    /\ bulk.pc = "user"
    /\ bulk' = [bulk EXCEPT !.user = IF ok THEN "resolved" ELSE "failed",
                            !.pc = IF ok THEN "lookups" ELSE "reported"]
    /\ UNCHANGED BulkRest

\* one of the lookup futures join_all polls completes
LookupDone(i, outcome) ==
    /\ bulk.pc = "lookups"
    /\ i \in 1..Len(bulk.issues) /\ bulk.task[i] = "pending"
    /\ bulk' = [bulk EXCEPT !.task[i] = outcome,
                            !.order = Append(bulk.order, i)]
    /\ UNCHANGED BulkRest

\* join_all returns when every future has completed; resolve_issue_infos
\* splits the outputs and batch_update_infos starts on the infos
Collect ==
    /\ bulk.pc = "lookups"
    /\ \A i \in 1..Len(bulk.issues) : bulk.task[i] # "pending"
    /\ LET r == resolve_issue_infos(bulk.issues, bulk.task)
       IN  bulk' = [bulk EXCEPT !.infos = r.infos, !.failures = r.failures,
                                !.collected = TRUE, !.next = 1, !.pc = "update"]
    /\ UNCHANGED BulkRest

\* batch_update_infos sends the next chunk of at most BATCH_SIZE ids and pushes
\* one entry per info of the chunk
UpdateChunk(outcome) ==
    /\ bulk.pc = "update" /\ bulk.next <= Len(bulk.infos)
    /\ LET last == Min(bulk.next + BATCH_SIZE - 1, Len(bulk.infos))
           chunk == SubSeq(bulk.infos, bulk.next, last)
       IN  bulk' = [bulk EXCEPT
               !.sent = Append(bulk.sent, [k \in 1..Len(chunk) |-> chunk[k].uuid]),
               !.updated = bulk.updated \o ChunkResults(chunk, outcome),
               !.next = last + 1]
    /\ UNCHANGED BulkRest

\* every chunk is done: failures.append(&mut updated); print_summary(&failures)
Report ==
    /\ bulk.pc = "update" /\ bulk.next > Len(bulk.infos)
    /\ bulk' = [bulk EXCEPT !.results = bulk.failures \o bulk.updated,
                            !.pc = "reported"]
    /\ UNCHANGED BulkRest

NextBulk ==
    \/ \E cmd \in {"assign", "unassign"} : \E issues \in IssueLists :
           BulkBegin(cmd, issues)
    \/ \E ok \in BOOLEAN : BulkResolveUser(ok)
    \/ \E i \in 1..MaxIssues : \E outcome \in LookupOutcomes : LookupDone(i, outcome)
    \/ Collect
    \/ \E outcome \in UpdateOutcomes : UpdateChunk(outcome)
    \/ Report

SpecBulk == Init /\ [][NextBulk]_vars

(***************************************************************************)
(* The cursor paginator page by page: paginate_nodes with each page        *)
(* request a step of its own.                                              *)
(***************************************************************************)
\* largest collection the service serves in the model
MaxItems == 5
\* default_page_size the callers of the model pass
WalkPageSize == 2

\* the collections the service may hold: 1, 2, .., n in server order
WalkCollections == {Indexes(n) : n \in 0..MaxItems}

\* the options a caller may pass
WalkOptions ==
    [limit : {None, 0, 1, 3, 4}, all : BOOLEAN, page_size : {None, 1, 3},
     after : {None}, before : {None}]

\* the page size and the limit paginate_nodes walks with
page_size_of(opts, defaultPageSize) ==
    IF opts.page_size # None THEN opts.page_size ELSE defaultPageSize
limit_of(opts) == IF opts.all THEN None ELSE opts.limit

WalkRest == <<rpc, max_retries, attempt, attempts, sleeps, lastDelay, lastResp,
              last_error, allRetryable, rout, callVars, fetchVars, clientVars,
              backoffVars, matchVars, cache, cache0, resolveVars, bulk, shape,
              tasks>>

\* paginate_nodes is called on a collection the service holds
PaginateBegin(coll, opts) ==
    /\ walk.pc = "idle"
    /\ walk' = [pc |-> "paging", coll |-> coll, opts |-> opts,
                cursor |-> IF opts.after # None THEN opts.after ELSE 0,
                acc |-> << >>, fetches |-> 0, out |-> << >>]
    /\ UNCHANGED WalkRest

\* one page request, were the limit only applied after the last page
PaginatePage_LimitAtEnd ==
    /\ walk.pc = "paging"
    /\ LET page == ServerPage(walk.coll, page_size_of(walk.opts, WalkPageSize),
                              walk.cursor)
           acc2 == walk.acc \o page.nodes
           limit == limit_of(walk.opts)
       IN  IF ~page.hasNextPage
           THEN walk' = [walk EXCEPT !.pc = "done", !.fetches = @ + 1,
                             !.acc = << >>,
                             !.out = IF limit # None THEN Take(acc2, limit)
                                     ELSE acc2]
           ELSE walk' = [walk EXCEPT !.fetches = @ + 1, !.acc = acc2,
                                     !.cursor = page.endCursor]
    /\ UNCHANGED WalkRest

\* one page request: fetch, append, stop at the limit or when no page follows
PaginatePage ==
    /\ walk.pc = "paging"
    /\ LET page == ServerPage(walk.coll, page_size_of(walk.opts, WalkPageSize),
                              walk.cursor)
           acc2 == walk.acc \o page.nodes
           limit == limit_of(walk.opts)
       IN  IF limit # None /\ Len(acc2) >= limit
           THEN walk' = [walk EXCEPT !.pc = "done", !.fetches = @ + 1,
                             !.acc = << >>, !.out = Take(acc2, limit)]
           ELSE IF ~page.hasNextPage
           THEN walk' = [walk EXCEPT !.pc = "done", !.fetches = @ + 1,
                             !.acc = << >>, !.out = acc2]
           ELSE walk' = [walk EXCEPT !.fetches = @ + 1, !.acc = acc2,
                                     !.cursor = page.endCursor]
    /\ UNCHANGED WalkRest

\* the call has returned; the caller may run the paginator again
PaginateReturn ==
    /\ walk.pc = "done"
    /\ walk' = IdleWalk
    /\ UNCHANGED WalkRest

NextPaginate ==
    \/ \E coll \in WalkCollections : \E opts \in WalkOptions :
           PaginateBegin(coll, opts)
    \/ PaginatePage
    \/ PaginateReturn

SpecPaginate == Init /\ [][NextPaginate]_vars

(***************************************************************************)
(* The shape check on its own: is_uuid over tokens of several lengths with *)
(* separators at several positions.                                        *)
(***************************************************************************)
\* the positions of the separators in an identifier of the service
SeparatorPositions == {9, 14, 19, 24}

\* the text of length n with "-" at the positions of D and "a" elsewhere
Token(n, D) == [i \in 1..n |-> IF i \in D THEN "-" ELSE "a"]

\* the inputs a caller may pass to the shape check
ShapeInputs ==
    {Token(n, D) : n \in {0, 23, 32, 35, 36, 37},
                   D \in SUBSET (SeparatorPositions \cup {1, 36})}

ShapeRest == <<rpc, max_retries, attempt, attempts, sleeps, lastDelay, lastResp,
               last_error, allRetryable, rout, callVars, fetchVars, clientVars,
               backoffVars, matchVars, cache, cache0, resolveVars, bulk, walk,
               tasks>>

\* is_uuid is called on an input
CheckShape(value) ==
    /\ shape' = [value |-> value, accepted |-> is_uuid(value)]
    /\ UNCHANGED ShapeRest

NextShape == \E value \in ShapeInputs : CheckShape(value)

SpecShape == Init /\ [][NextShape]_vars

(***************************************************************************)
(* Concurrent resolutions: resolve_id calls of one process interleaved at  *)
(* their requests, sharing the cache.                                      *)
(***************************************************************************)
\* the entry points the concurrent callers use
TaskKinds == {"team", "label"}

\* the states of the service's collections a fetch may meet: the collection
\* as it is, or as it was before its last item was added
Generations == {0, 1}
Generation(b, g) ==
    SubSeq(FullCollection(b), 1, Len(FullCollection(b)) - g)

TasksRest == <<rpc, max_retries, attempt, attempts, sleeps, lastDelay, lastResp,
               last_error, allRetryable, rout, callVars, fetchVars, clientVars,
               backoffVars, matchVars, cache0, resolveVars, bulk, walk, shape>>

\* resolve_id is called: the cache probe, then the filtered query is sent
TaskBegin(t, kind, inp, nc) ==
    /\ tasks[t].pc = "idle"
    /\ \E expired \in BOOLEAN :
         LET cached == IF nc THEN NoEntry
                       ELSE CacheGet(cache, CacheTypeOf(kind), expired)
             id == Finder(kind, cached.data, inp)
         IN  tasks' = [tasks EXCEPT ![t] =
                 [IdleTask EXCEPT !.kind = kind, !.input = inp, !.nc = nc,
                      !.read = cached,
                      !.pc = IF cached.present /\ id # NoId THEN "Done"
                             ELSE "FilteredQuery"]]
    /\ UNCHANGED cache
    /\ UNCHANGED TasksRest

\* the filtered query is answered: a match returns, a miss sends the first
\* page request of the full fetch
TaskFilteredQuery(t) ==
    /\ tasks[t].pc = "FilteredQuery"
    /\ \/ tasks' = [tasks EXCEPT ![t].pc = "Error"]
       \/ \E g \in Generations : \E hit \in BOOLEAN :
            LET coll == Generation(CacheTypeOf(tasks[t].kind), g)
                nodes == IF hit THEN coll ELSE << >>
                id == Finder(tasks[t].kind, nodes, tasks[t].input)
            IN  tasks' = [tasks EXCEPT
                    ![t].pc = IF id # NoId THEN "Done" ELSE "FullFetch",
                    ![t].coll = coll]
    /\ UNCHANGED cache
    /\ UNCHANGED TasksRest

\* a page request answered, were the pages cached as they arrive
TaskPage_WritesEachPage(t) ==
    /\ tasks[t].pc = "FullFetch"
    /\ \/ /\ tasks' = [tasks EXCEPT ![t].pc = "Error", ![t].acc = << >>]
          /\ UNCHANGED cache
       \/ LET page == ServerPage(tasks[t].coll, ResolvePagination.page_size,
                                 tasks[t].cursor)
              all_items == tasks[t].acc \o page.nodes
              id == Finder(tasks[t].kind, all_items, tasks[t].input)
          IN  /\ cache' = FullFetchCacheWrite(cache, tasks[t].kind, all_items,
                                              tasks[t].nc)
              /\ IF page.hasNextPage
                 THEN tasks' = [tasks EXCEPT ![t].acc = all_items,
                                             ![t].cursor = page.endCursor]
                 ELSE tasks' = [tasks EXCEPT
                          ![t].acc = << >>, ![t].cursor = 0,
                          ![t].wrote = IF tasks[t].nc THEN << >> ELSE all_items,
                          ![t].stamp =
                              IF tasks[t].nc THEN 0
                              ELSE 1 + Cardinality({u \in TaskIds :
                                                      tasks[u].stamp > 0}),
                          ![t].pc = IF id # NoId THEN "Done" ELSE "NotFound"]
    /\ UNCHANGED TasksRest

\* a page request of the full fetch is answered: a failure returns, a page
\* that has a successor sends the next request, the last page is followed by
\* the cache write and the match
TaskPage(t) ==
    /\ tasks[t].pc = "FullFetch"
    /\ \/ /\ tasks' = [tasks EXCEPT ![t].pc = "Error", ![t].acc = << >>]
          /\ UNCHANGED cache
       \/ LET page == ServerPage(tasks[t].coll, ResolvePagination.page_size,
                                 tasks[t].cursor)
              all_items == tasks[t].acc \o page.nodes
              id == Finder(tasks[t].kind, all_items, tasks[t].input)
          IN  IF page.hasNextPage
              THEN /\ tasks' = [tasks EXCEPT ![t].acc = all_items,
                                             ![t].cursor = page.endCursor]
                   /\ UNCHANGED cache
              ELSE /\ cache' = FullFetchCacheWrite(cache, tasks[t].kind, all_items,
                                                   tasks[t].nc)
                   /\ tasks' = [tasks EXCEPT
                          ![t].acc = << >>, ![t].cursor = 0,
                          ![t].wrote = IF tasks[t].nc THEN << >> ELSE all_items,
                          ![t].stamp =
                              IF tasks[t].nc THEN 0
                              ELSE 1 + Cardinality({u \in TaskIds :
                                                      tasks[u].stamp > 0}),
                          ![t].pc = IF id # NoId THEN "Done" ELSE "NotFound"]
    /\ UNCHANGED TasksRest

NextConcurrent ==
    \/ \E t \in TaskIds : \E kind \in TaskKinds :
         \E inp \in {i \in InputsOf(kind) : ~is_uuid(i)} : \E nc \in BOOLEAN :
            TaskBegin(t, kind, inp, nc)
    \/ \E t \in TaskIds : TaskFilteredQuery(t)
    \/ \E t \in TaskIds : TaskPage(t)

SpecConcurrent == Init /\ [][NextConcurrent]_vars

(***************************************************************************)
(* Properties of the resolver and the cache.                               *)
(***************************************************************************)
\* the position the call was in before its current one
Prev == IF Len(trace) >= 2 THEN trace[Len(trace) - 1] ELSE "none"

\* a call on the generic path of resolve_id (a user input "me" is answered by
\* the viewer query instead)
GenericCall ==
    entry \in GenericKinds /\ ~(entry = "user" /\ EqIgnoreCase(input, sme))

Strategies == {"ShapeCheck", "CacheProbe", "FilteredQuery", "FullFetch"}

Rank(p) ==
    CASE p = "ShapeCheck" -> 1
      [] p = "CacheProbe" -> 2
      [] p = "FilteredQuery" -> 3
      [] p = "FullFetch" -> 4
      [] OTHER -> 5

\* the positions of the call so far are in strictly increasing order
TraceInOrder ==
    \A i, j \in 1..Len(trace) : i < j => Rank(trace[i]) < Rank(trace[j])

\* C1: every bucket that holds an entry holds the complete, unfiltered
\* collection of its entity kind, whatever commands ran before.
C1_BucketsHoldCompleteCollections ==
    \A b \in Buckets :
        cache[b].present => PayloadItems(b, cache[b].data) = FullCollection(b)

\* C2: a resolve call that ends with a hit of the filtered query leaves every
\* cache bucket as it was when the call started.
C2_FilteredHitLeavesCache ==
    (pc = "Done" /\ Prev = "FilteredQuery") => cache = cache0

C2_Witness ==
    /\ pc = "Done" /\ Prev = "FilteredQuery" /\ ~noCache
    /\ result # NoId /\ seen # << >> /\ net = 1

C5_NoCacheBypassesCache ==
    (pc # "idle" /\ noCache) => (reads = 0 /\ cache = cache0)

C5_Witness ==
    /\ noCache /\ pc \in {"Done", "NotFound"} /\ Prev = "FullFetch"
    /\ cache[CacheTypeOf(entry)].present

\* C6: after a cache miss, a filtered-query miss and a successful full fetch
\* with caching enabled, the bucket of the entity kind holds exactly the
\* collection the full fetch returned, which is the whole collection, and the
\* other buckets are as they were.
C6_FullFetchFillsBucket ==
    (pc \in {"Done", "NotFound"} /\ Prev = "FullFetch" /\ ~noCache) =>
        /\ reads = 1
        /\ cache[CacheTypeOf(entry)] = [present |-> TRUE, data |-> seen]
        /\ seen = FullCollection(CacheTypeOf(entry))
        /\ \A b \in Buckets \ {CacheTypeOf(entry)} : cache[b] = cache0[b]

C6_Witness ==
    /\ pc = "NotFound" /\ Prev = "FullFetch" /\ ~noCache
    /\ cache0[CacheTypeOf(entry)].present
    /\ cache0[CacheTypeOf(entry)] # cache[CacheTypeOf(entry)]


\* C16: a call on the generic path that found no match in the cache, the
\* filtered query or the full fetch ends in NotFound without an id, and the
\* message it fails with names a listing command, for teams, users and labels.
C16_NotFoundNamesListing ==
    (GenericCall /\ pc = "NotFound") =>
        /\ result = NoId /\ err = "not_found"
        /\ Finder(entry, seen, input) = NoId
        /\ Contains(ToLower(not_found_msg(entry, input)), kwList)

\* C21: when a user of the collection searched has a name equal to the input
\* ignoring case, the id a user resolution returns is that of a user whose
\* name matches; a user matching by email only is returned only when no name
\* matches.
C21_NameBeforeEmail ==
    (entry = "user" /\ pc = "Done"
        /\ Prev \in {"CacheProbe", "FilteredQuery", "FullFetch"}) =>
        LET byName == {i \in 1..Len(seen) : ToLower(seen[i].name) = ToLower(input)}
            byMail == {i \in 1..Len(seen) : ToLower(seen[i].email) = ToLower(input)}
        IN  /\ byName \cup byMail # {}
            /\ IF byName # {} THEN \E i \in byName : result = seen[i].id
               ELSE \E i \in byMail : result = seen[i].id

(***************************************************************************)
(* Properties of the retrying client and the transport.                    *)
(***************************************************************************)
\* the outcome of the latest transport attempt
LastOutcome == query_once(lastResp)

\* an attempt has been made and it failed
LastFailed == attempts > 0 /\ ~LastOutcome.ok

FatalStatuses == {401, 403, 404}
TransientStatuses == {429, 502, 503, 504}

\* C7: when every attempt fails with a retryable error, a query with
\* max_retries = N makes N + 1 attempts and N sleeps, one after each attempt
\* but the last, and returns the error of the last attempt.
C7_RetryExhaustion ==
    allRetryable =>
        /\ (rpc = "attempt" => sleeps = attempts /\ attempts <= max_retries)
        /\ (rpc = "sleeping" => sleeps = attempts /\ attempts <= max_retries)
        /\ (rpc = "returned" =>
               /\ attempts = max_retries + 1
               /\ sleeps = max_retries
               /\ rout = [kind |-> "err", err |-> LastOutcome.err])

C7_Witness ==
    /\ rpc = "returned" /\ allRetryable /\ max_retries = 2
    /\ lastResp.status = 503 /\ attempts = 3 /\ sleeps = 2
    /\ rout.kind = "err"

\* C8: a non-retryable error ends the query at the attempt that observed it,
\* with no sleep after it, also after earlier retryable failures; the error a
\* query returns is always the one of the last attempt made.
C8_FatalReturnsLastError ==
    /\ (LastFailed /\ ~is_retryable(LastOutcome.err)) =>
          /\ rpc = "returned"
          /\ sleeps = attempts - 1
          /\ rout = [kind |-> "err", err |-> LastOutcome.err]
    /\ (rpc = "returned" /\ rout.kind # "ok") =>
          /\ rout.kind = "err"
          /\ rout.err = LastOutcome.err
          /\ attempt = attempts - 1

C8_Witness ==
    /\ rpc = "returned" /\ rout.kind = "err" /\ ~is_retryable(rout.err)
    /\ attempts = 2 /\ max_retries = 3
    /\ last_error # NoError /\ last_error # rout.err

\* C9: the error built for a 401, 403 or 404 is not retryable and ends the
\* query at that attempt; the error built for a 429, 502, 503 or 504 is
\* retryable and is followed by a sleep and another attempt while retries
\* remain.
C9_StatusClassification ==
    /\ \A st \in FatalStatuses : \A sh \in ErrorShapes :
          ~is_retryable(http_error(st, sh.headers, tResource))
    /\ \A st \in TransientStatuses : \A sh \in ErrorShapes :
          is_retryable(http_error(st, sh.headers, tResource))
    /\ (attempts > 0 /\ lastResp.sent /\ lastResp.status \in FatalStatuses) =>
          /\ ~is_retryable(LastOutcome.err)
          /\ rpc = "returned" /\ rout.kind = "err"
          /\ sleeps = attempts - 1
    /\ (attempts > 0 /\ lastResp.sent /\ lastResp.status \in TransientStatuses) =>
          /\ is_retryable(LastOutcome.err)
          /\ IF attempts <= max_retries
             THEN rpc \in {"sleeping", "attempt"} /\ sleeps = attempts
             ELSE rpc = "returned" /\ rout.kind = "err"

C9_Witness ==
    /\ rpc = "returned" /\ lastResp.status = 401 /\ attempts = 2
    /\ last_error.code = 4 /\ last_error.retry_after = 2 /\ lastDelay = 2000

\* C10: a 2xx response whose body has a top-level "errors" field ends the
\* query at that attempt with a failure whose details are the errors value,
\* whatever max_retries is and whatever the entries contain; as the first
\* response of a query it makes for exactly one attempt.
C10_GraphQLErrorsAreFatal ==
    (attempts > 0 /\ lastResp.sent /\ is_success(lastResp.status)
        /\ lastResp.body = "data" /\ lastResp.errors.present) =>
        /\ rpc = "returned"
        /\ rout.kind = "err"
        /\ rout.err.cli /\ rout.err.code = 1 /\ rout.err.message = tGraphQLError
        /\ rout.err.details = GraphQLDetails(lastResp.errors)
        /\ sleeps = attempts - 1
        /\ (~allRetryable \/ attempts = 1)
        /\ (last_error = NoError => attempts = 1)

C10_Witness ==
    /\ rpc = "returned" /\ attempts = 1 /\ max_retries = 3
    /\ lastResp.status = 200 /\ lastResp.errors.present
    /\ Contains(ToLower(Display(rout.err)), kwTimeout)


\* C11: when the failed attempt carries a server hint of d seconds, the retry
\* loop sleeps exactly d seconds before the next attempt, whatever the attempt
\* index and the jitter draw, also when d exceeds max_delay.
C11_ServerHintVerbatim ==
    (rpc = "sleeping" /\ retry_after(last_error) # None) =>
        /\ lastDelay = 1000 * retry_after(last_error)
        /\ retry_after(last_error) = lastResp.headers.retry_after

C11_Witness ==
    /\ rpc = "sleeping" /\ attempt = 2 /\ retry_after(last_error) = 60
    /\ lastDelay = 60000 /\ lastDelay > MaxDelayMs + MaxDelayMs \div 4

\* the error of the latest attempt, as the retry loop holds it
Observed == IF rpc = "returned" THEN rout.err ELSE last_error

\* e is the failure built from the status and headers of resp, details aside
FromStatus(e, resp, context) ==
    /\ e.cli
    /\ e.message # tDecodeFailed
    /\ [e EXCEPT !.details = NoDetails]
          = [http_error(resp.status, resp.headers, context)
                EXCEPT !.details = NoDetails]

\* C14: an attempt of query that got a non-2xx response, and a fetch_bytes
\* call that got one, fail with the error built from the status, whatever the
\* body is; the failure is never the one of decoding the body.
C14_StatusBeforeDecode ==
    /\ (attempts > 0 /\ lastResp.sent /\ ~is_success(lastResp.status)) =>
          /\ (rpc = "returned" => rout.kind = "err")
          /\ FromStatus(Observed, lastResp, tResource)
    /\ (fetchResp.sent /\ ~is_success(fetchResp.status)) =>
          /\ fetchOut.kind = "err"
          /\ FromStatus(fetchOut.err, fetchResp, tUpload)

C14_Witness ==
    /\ rpc = "returned" /\ lastResp.status = 404 /\ lastResp.body = "text"
    /\ rout.err.code = 2 /\ rout.err.message = tResource \o tNotFoundSuffix

\* the details name the status, its reason phrase and the request id of resp
CarriesDiagnostics(e, resp) ==
    /\ e.details.status = resp.status
    /\ e.details.reason = (IF canonical_reason(resp.status) # NoId
                           THEN canonical_reason(resp.status) ELSE tUnknownError)
    /\ e.details.request_id = resp.headers.request_id

\* C15: the failure of an attempt of query that got a non-2xx response, and
\* of a fetch_bytes call that got one, carries the status code, the reason
\* phrase and the request id in its details, whatever the body is.
C15_DetailsCarryStatus ==
    /\ (attempts > 0 /\ lastResp.sent /\ ~is_success(lastResp.status)) =>
          CarriesDiagnostics(Observed, lastResp)
    /\ (fetchResp.sent /\ ~is_success(fetchResp.status)) =>
          CarriesDiagnostics(fetchOut.err, fetchResp)

\* what the retry path does on the outcomes seen so far, for a client built
\* with n retries: every retryable failure but the last allowed one is slept
\* on and followed by another attempt, and the call returns the outcome of
\* its last attempt
RetryPath(n) ==
    /\ max_retries = n
    /\ received <= attempts /\ attempts <= n + 1
    /\ (rpc = "attempt" => sleeps = attempts /\ attempts <= n)
    /\ (rpc = "sleeping" =>
           /\ sleeps = attempts /\ attempts <= n
           /\ is_retryable(last_error) /\ last_error = LastOutcome.err)
    /\ (rpc = "returned" =>
           /\ sleeps = attempts - 1
           /\ IF LastOutcome.ok THEN rout = [kind |-> "ok", err |-> NoError]
              ELSE /\ rout = [kind |-> "err", err |-> LastOutcome.err]
                   /\ (is_retryable(rout.err) => attempts = n + 1))

\* C19: mutate goes through the retry path exactly as query does, on the
\* client's retry count: the mutation is sent again after every retryable
\* failure while retries remain, so the service receives it once per attempt
\* that reached it, up to max_retries + 1 times.
C19_MutateRetriesLikeQuery ==
    /\ (op = "query" => RetryPath(client))
    /\ (op = "mutate" => RetryPath(client))
    /\ (op = "mutate" /\ attempts > 0 /\ lastResp.sent => received >= 1)

C19_Witness ==
    /\ op = "mutate" /\ rpc = "returned" /\ max_retries = 3
    /\ received = max_retries + 1 /\ sleeps = 3 /\ rout.kind = "err"

(***************************************************************************)
(* Properties of the backoff policy.                                       *)
(***************************************************************************)
\* a call of delay_for_attempt without a server hint has been made
Unhinted == bDelay # None /\ bHint = None

\* initial_delay * multiplier^attempt, before the clamp
Uncapped(att) == InitialDelayMs * Pow(ExponentialBase, att)

\* C12 as stated: with no server hint and the draw at the same position, the
\* delay of the next attempt is at least multiplier * 0.75 times the delay of
\* this attempt, for every attempt.
C12_GrowsAtEveryAttempt ==
    Unhinted => 4 * bNext >= 3 * ExponentialBase * bDelay

\* C12 amended: the growth by multiplier * 0.75 holds for every attempt whose
\* successor's backoff is not clamped to max_delay; at every attempt the delay
\* of the next attempt is at least the delay of this one.
C12_GrowsUntilClamped ==
    Unhinted =>
        /\ (Uncapped(bAttempt + 1) <= MaxDelayMs =>
               4 * bNext >= 3 * ExponentialBase * bDelay)
        /\ bNext >= bDelay

C12_Witness ==
    /\ Unhinted /\ bAttempt = 3 /\ bSeed = 0
    /\ bDelay = 6000 /\ bNext = 12000

\* C13: with no server hint the delay is never negative, differs from
\* base = min(initial_delay * multiplier^attempt, max_delay) by at most a
\* quarter of base, and is at most max_delay * 1.25.
C13_JitterWithinQuarter ==
    Unhinted =>
        LET base == IF Uncapped(bAttempt) < MaxDelayMs THEN Uncapped(bAttempt)
                    ELSE MaxDelayMs
        IN  /\ bDelay >= 0
            /\ 4 * (bDelay - base) <= base
            /\ 4 * (base - bDelay) <= base
            /\ 4 * bDelay <= 5 * MaxDelayMs

C13_Witness ==
    /\ Unhinted /\ bAttempt = 6 /\ bSeed = JitterSteps
    /\ 4 * bDelay = 5 * MaxDelayMs

(***************************************************************************)
(* Properties of the resolver entry points.                                *)
(***************************************************************************)
\* C4: a call whose input is already in the shape of an id (for the team
\* labels resolver: whose labels all are) ends in Done with the input
\* returned unchanged and without a single request.
C4_CanonicalInputNoRequest ==
    /\ (pc \in Terminal /\ entry # "label_ids" /\ is_uuid(input)) =>
          (pc = "Done" /\ net = 0 /\ result = input)
    /\ (pc \in Terminal /\ entry = "label_ids"
            /\ \A i \in 1..Len(labels) : is_uuid(labels[i])) =>
          (pc = "Done" /\ net = 0 /\ resolved = labels)

\* value has the form PREFIX-NUMBER: one hyphen, before it at least one
\* character, all ASCII letters, digits or underscores, after it at least one
\* character, all digits
IsPrefixNumber(value) ==
    /\ CountChar(value, "-") = 1
    /\ LET dash == CHOOSE i \in 1..Len(value) : value[i] = "-"
       IN  /\ dash > 1 /\ dash < Len(value)
           /\ \A i \in 1..(dash - 1) :
                 \/ value[i] = "_"
                 \/ \E k \in 1..26 : value[i] \in {UpperChars[k], LowerChars[k]}
                 \/ \E k \in 1..10 : value[i] = Digits[k]
           /\ \A i \in (dash + 1)..Len(value) : \E k \in 1..10 : value[i] = Digits[k]

\* C17: resolve_issue_id on an input that has neither the shape of an id nor
\* the form PREFIX-NUMBER issues no request and ends in the format error.
C17_MalformedIssueFailsFast ==
    (entry = "issue" /\ ~is_uuid(input) /\ ~IsPrefixNumber(input)) =>
        /\ net = 0
        /\ pc \in {"ShapeCheck", "InvalidFormat"}
        /\ (pc = "InvalidFormat" => err = "invalid_format" /\ result = NoId)

C17_Witness ==
    /\ entry = "issue" /\ input = sBadNumber
    /\ pc = "InvalidFormat" /\ net = 0 /\ trace = <<"ShapeCheck", "InvalidFormat">>

(***************************************************************************)
(* Properties of the process-wide default.                                 *)
(***************************************************************************)
\* C18: DEFAULT_RETRY holds the count of the first set_default_retry call,
\* whatever later calls pass; a client built by new or with_api_key has the
\* default held when it was built, 3 when none was; a client built by
\* new_with_retry has the count it was given; a query runs with its client's
\* count.
C18_DefaultSetOnce ==
    /\ (firstSet = None) = (default_retry = None)
    /\ default_retry = firstSet
    /\ (built \in {"new", "with_api_key"} =>
           client = IF defaultAtBuild = None THEN 3 ELSE defaultAtBuild)
    /\ (built = "new_with_retry" => client = asked)
    /\ (rpc # "idle" => max_retries = client)

C18_Witness ==
    /\ firstSet = 2 /\ lastSet = 0 /\ default_retry = 2
    /\ built = "new" /\ defaultAtBuild = 2 /\ client = 2
    /\ rpc = "returned" /\ allRetryable /\ attempts = 3

(***************************************************************************)
(* Properties of the matchers.                                             *)
(***************************************************************************)
\* positions of the teams whose key, whose name, equals the input ignoring case
KeyMatches == {i \in 1..Len(mTeams) : ToLower(mTeams[i].key) = ToLower(mInput)}
NameMatches == {i \in 1..Len(mTeams) : ToLower(mTeams[i].name) = ToLower(mInput)}

\* C20: when some team's key equals the input ignoring case, the id returned
\* is that of the first such team, wherever the teams whose name matches are;
\* when none does, it is that of the first team whose name equals the input
\* ignoring case; when no key and no name matches, nothing is returned.
C20_KeyThenName ==
    /\ (KeyMatches # {} =>
           \E i \in KeyMatches :
               (\A j \in KeyMatches : i <= j) /\ mFound = mTeams[i].id)
    /\ (KeyMatches = {} /\ NameMatches # {} =>
           \E i \in NameMatches :
               (\A j \in NameMatches : i <= j) /\ mFound = mTeams[i].id)
    /\ (KeyMatches = {} /\ NameMatches = {} => mFound = NoId)

C20_Witness ==
    /\ mInput = seng /\ Len(mTeams) = 3
    /\ NameMatches = {1} /\ KeyMatches = {2, 3}
    /\ mFound = mTeams[2].id /\ mFound # NoId

(***************************************************************************)
(* Properties of the team-scoped resolvers and the searches.               *)
(***************************************************************************)
\* C22: a cycle resolution whose input parses as a number returns the cycle
\* of that number when the team has one, wherever a cycle whose name equals
\* the input is in the list; a name match is returned only when no number
\* matches, and NotFound only when neither does.
C22_NumberBeforeName ==
    (entry = "cycle" /\ pc \in {"Done", "NotFound"} /\ Prev = "Query") =>
        LET numeric == parse_i64(input)
            byNumber == {i \in 1..Len(ServerCycles) :
                            numeric.ok /\ ServerCycles[i].number = numeric.value}
            byName == {i \in 1..Len(ServerCycles) :
                          ToLower(ServerCycles[i].name) = ToLower(input)}
        IN  IF byNumber # {}
            THEN pc = "Done" /\ \E i \in byNumber : result = ServerCycles[i].id
            ELSE IF byName # {}
            THEN pc = "Done" /\ \E i \in byName : result = ServerCycles[i].id
            ELSE pc = "NotFound"

(***************************************************************************)
(* Properties of the bulk commands.                                        *)
(***************************************************************************)
\* how many entries of a sequence of records carry issue_id x
EntriesFor(entries, x) ==
    Cardinality({k \in 1..Len(entries) : entries[k].issue_id = x})

\* how many of the command's issues are x and have a lookup that ended in one
\* of the outcomes
IssuesFor(x, outcomes) ==
    Cardinality({i \in 1..Len(bulk.issues) :
                    bulk.issues[i] = x /\ bulk.task[i] \in outcomes})

\* the ids the command has sent in issueBatchUpdate mutations, in order
SentIds ==
    LET RECURSIVE Flat(_)
        Flat(chunks) == IF chunks = << >> THEN << >>
                        ELSE Head(chunks) \o Flat(Tail(chunks))
    IN  Flat(bulk.sent)

\* what the claim says of a command that has reported: one entry per input
\* issue, each marked success or failure; every issue whose lookup succeeded
\* sent in exactly one update mutation whatever the other lookups did; every
\* issue whose lookup failed reported as a failure
OneEntryPerIssue ==
    \A x \in IssueIds :
        /\ EntriesFor(bulk.results, x)
               = Cardinality({i \in 1..Len(bulk.issues) : bulk.issues[i] = x})
        /\ Cardinality({k \in 1..Len(SentIds) : SentIds[k] = x})
               = IssuesFor(x, {"found"})
        /\ Cardinality({k \in 1..Len(bulk.results) :
                           /\ bulk.results[k].issue_id = x
                           /\ ~bulk.results[k].success
                           /\ bulk.results[k].error \in {"Issue not found", "query"}})
               = IssuesFor(x, {"null", "error"})
        /\ \A k \in 1..Len(bulk.results) : bulk.results[k].success \in BOOLEAN

\* C23: the lookups of a bulk command are collected only once every one of
\* them has completed, in whatever order they complete, and the command
\* reports exactly one entry per input issue, each marked success or failure,
\* the issues whose lookup succeeded having been sent for update whatever the
\* other lookups did.
C23_OneEntryPerIssue ==
    /\ bulk.collected => \A i \in 1..Len(bulk.issues) : bulk.task[i] # "pending"
    /\ bulk.pc = "reported" => OneEntryPerIssue

(***************************************************************************)
(* Properties of the full fetch.                                           *)
(***************************************************************************)
\* C24: a call whose full fetch had a page request fail returns that error and
\* no id, keeps no accumulated pages, and leaves every cache bucket as it was
\* when the call started.
C24_AllOrNothing ==
    (pc = "Error" /\ Prev = "FullFetch") =>
        /\ err = "transport" /\ result = NoId
        /\ acc = << >>
        /\ cache = cache0

\* a call that bypassed no cache and failed on the second page of its full
\* fetch, after the filtered query and the first page had succeeded
C24_Witness ==
    /\ pc = "Error" /\ Prev = "FullFetch" /\ ~noCache
    /\ net = 3 /\ cursor = ResolvePageSize

(***************************************************************************)
(* Properties of the paginator.                                            *)
(***************************************************************************)
\* the least number of pages of size n that hold k items (one when k is 0)
PagesFor(k, n) == Max(1, (k + n - 1) \div n)

\* C25: with all set the paginator returns every item of every page in
\* server order; with a limit L it returns exactly the first L items (all of
\* them when fewer exist) and requests only the pages that hold them.
C25_AllOrFirstL ==
    walk.pc = "done" =>
        LET n == page_size_of(walk.opts, WalkPageSize)
            limit == limit_of(walk.opts)
        IN  /\ walk.out = paginate_nodes(walk.coll, walk.opts, WalkPageSize)
            /\ limit = None =>
                   /\ walk.out = walk.coll
                   /\ walk.fetches = PagesFor(Len(walk.coll), n)
            /\ limit # None =>
                   /\ walk.out = Take(walk.coll, limit)
                   /\ walk.fetches = PagesFor(Min(limit, Len(walk.coll)), n)

\* the service holds 5 items in pages of 2, 2 and 1: the paginator was run
\* with limit 3 and returned the first 3 items after 2 page requests
C25_Witness ==
    /\ walk.pc = "done" /\ Len(walk.coll) = 5
    /\ page_size_of(walk.opts, WalkPageSize) = 2
    /\ limit_of(walk.opts) = 3
    /\ walk.out = <<1, 2, 3>> /\ walk.fetches = 2

(***************************************************************************)
(* Properties of the page loops.                                           *)
(***************************************************************************)
\* C26: the page loop of the issue search is not kept going by a service that
\* answers has-more with the cursor the request was made with: a page request
\* made with a cursor is never followed, in the same pass, by another request
\* with that same cursor.
C26_StuckCursorEndsLoop ==
    [][(pc = "Search" /\ entry = "issue" /\ cursor # None
            /\ pc' = "Search" /\ pass' = pass) => cursor' # cursor]_vars

(***************************************************************************)
(* Properties of the shape check.                                          *)
(***************************************************************************)
\* C28: the shape check accepts an input exactly when it has 36 characters
\* and exactly 4 separators, at the positions the service puts them.
C28_AcceptsExactlyCanonical ==
    shape.accepted <=>
        /\ Len(shape.value) = UuidLen
        /\ {i \in 1..Len(shape.value) : shape.value[i] = "-"} = SeparatorPositions

(***************************************************************************)
(* Properties of the end of the retry loop.                                *)
(***************************************************************************)
\* C29: the retry loop always returns from inside the loop: it never sleeps
\* after its last attempt, so the loop index never passes max_retries and the
\* `expect` after the loop is never reached, neither to panic nor to return
\* the stored last_error.
C29_ExpectUnreachable ==
    /\ attempt <= max_retries
    /\ rpc = "sleeping" => attempt < max_retries
    /\ rout.kind # "panic"

\* a call that slept after every attempt but the last and returned the last
\* attempt's retryable failure from inside the loop
C29_Witness ==
    /\ rpc = "returned" /\ rout.kind = "err" /\ is_retryable(rout.err)
    /\ max_retries >= 1 /\ attempt = max_retries /\ sleeps = max_retries
    /\ last_error # NoError

(***************************************************************************)
(* Properties of the archived fallback of the searches.                    *)
(***************************************************************************)
SearchKinds == {"issue", "project", "initiative"}

\* C30: a search makes at most two passes; a second pass only follows a pass
\* without archived items that missed, and includes them; no pass follows an
\* archived-inclusive pass, so a call with include_archived set makes exactly
\* one; a match ends the call in the pass it is found in; the call fails with
\* NotFound only out of an archived-inclusive pass.
C30_ArchivedFallback ==
    [][entry' \in SearchKinds =>
          /\ pass' \in {0, 1}
          /\ pass' = 1 => include'
          /\ (entry = entry' /\ pass' # pass) =>
                 pass = 0 /\ pass' = 1 /\ ~include /\ pc = "Search" /\ pc' = "Search"
          /\ (entry = entry' /\ include) => include' /\ pass' = pass
          /\ (pc = "Search" /\ pc' = "Done") => pass' = pass /\ include' = include
          /\ (pc = "Search" /\ pc' = "NotFound") => include]_vars

\* an initiative search that missed without archived items and matched in
\* its second pass
C30_Witness ==
    /\ entry = "initiative" /\ pc = "Done" /\ Prev = "Search"
    /\ pass = 1 /\ include /\ net = 2 /\ result = NamedId

(***************************************************************************)
(* Properties of the cache under concurrent resolutions.                   *)
(***************************************************************************)
\* the tasks that have written bucket b
WritersOf(b) ==
    {t \in TaskIds : tasks[t].stamp > 0 /\ CacheTypeOf(tasks[t].kind) = b}

\* C27: under every interleaving of the resolutions, a bucket no resolution
\* has written holds no entry, a bucket some have written holds exactly the
\* collection of the latest completed full fetch that wrote it, and that is
\* the whole collection the fetch walked; what a resolution read from the
\* cache is no entry or a whole collection.
C27_WholeCollectionLastWriteWins ==
    /\ \A b \in Buckets :
          IF WritersOf(b) = {} THEN cache[b] = NoEntry
          ELSE \E t \in WritersOf(b) :
                  /\ \A u \in WritersOf(b) : tasks[u].stamp <= tasks[t].stamp
                  /\ cache[b] = [present |-> TRUE, data |-> tasks[t].wrote]
                  /\ tasks[t].wrote = tasks[t].coll
    /\ \A t \in TaskIds :
          tasks[t].read.present =>
              \E g \in Generations :
                  tasks[t].read.data = Generation(CacheTypeOf(tasks[t].kind), g)

\* two resolutions walked the labels with their requests interleaved, met
\* different collections, and both wrote the bucket: it holds the later write
C27_Witness ==
    /\ tasks[1].kind = "label" /\ tasks[2].kind = "label"
    /\ tasks[1].stamp = 2 /\ tasks[2].stamp = 1
    /\ tasks[1].wrote # tasks[2].wrote
    /\ Len(tasks[1].wrote) = Len(ServerLabels)
    /\ cache[BucketLabels].data = tasks[1].wrote
    /\ cache[BucketTeams] = NoEntry

====
